---- MODULE Spec2Model ----
(***************************************************************************)
(* Inbound pipeline of the Feishu channel extension:                       *)
(*   handleMessageReceive -> message handler (dedupe) -> inbound debouncer *)
(*   -> onFlush -> prepareFeishuMessage (access gate, context) ->          *)
(*   dispatchPreparedFeishuMessage (engine, replies).                      *)
(* Asynchronous handlers are modelled as turns with a program counter: one *)
(* action per stretch of code between two awaits that touch shared state.  *)
(* Texts are sequences of lines, so joining with a newline is              *)
(* concatenation of line sequences.                                        *)
(***************************************************************************)
EXTENDS Integers, Sequences, FiniteSets, TLC

VARIABLES
    cfg,            \* FeishuMonitorContext configuration (fixed after construction)
    pool,           \* the events (by name) the platform may deliver in this run
    budget,         \* how many deliveries this run explores
    received,       \* number of deliveries so far
    now,            \* clock, in ticks
    seenMessages,   \* dedupe cache: sequence of [key, ts], oldest insertion first
    buffers,        \* debouncer: bucket key -> pending entries (timer armed)
    turns,          \* flushed turns, in flush order; each a running onFlush call
    userCache,      \* resolveUserName cache: set of resolved user ids
    pairingStore,   \* pending pairing requests: set of external ids
    chatHistories,  \* pending history: history key -> sequence of entries
    deliveries,     \* history variable: every event handed to the message handler
    directoryUp,    \* whether the platform's user directory answers in this run
    matchCall,      \* a call of the two allowlist matchers: its arguments and results
    threadCall,     \* a call of resolveFeishuThreadContext: its argument and result
    replyRun,       \* the delivery of the replies of one turn
    stoppedAt,      \* -1 while the provider runs, else the number of turns at stop
    sendRuns,       \* concurrent deliveries: per turn its chunks and the calls in flight
    planRun,        \* a reply delivery plan: its parameters, its flag and its calls
    chunkCall,      \* a call of chunkFeishuText: its arguments and result
    activeProviders, \* account id -> the monitor provider registered for it
    providerCalls   \* calls of getFeishuMonitorProvider and where each stands

vars == <<cfg, pool, budget, received, now, seenMessages, buffers, turns,
          userCache, pairingStore, chatHistories, deliveries, directoryUp, matchCall, threadCall, replyRun, stoppedAt,
                sendRuns, planRun, chunkCall, activeProviders, providerCalls>>

----------------------------------------------------------------------------
(* Bounds *)

MaxEvents == 3
MaxTime == 1
DedupeTtl == 1
DedupeMaxSize == 1
MaxHistoryLimit == 2
MaxReplies == 1

----------------------------------------------------------------------------
(* Identifiers *)

BotId == "ou_bot"
AccountId == "default"
Undefined == "<undefined>"

\* String.prototype.startsWith on the id prefixes the code looks at.
IdPrefix(id) ==
    CASE id \in {"oc_g1", "oc_g2"} -> "oc_"
      [] id \in {"ou_d1", "ou_d2", "ou_bot"} -> "ou_"
      [] OTHER -> ""

\* String.prototype.toLowerCase on the tokens used as ids, names and entries.
Lower(s) ==
    CASE s = "U1" -> "u1"
      [] s = "Alice" -> "alice"
      [] OTHER -> s

\* Display names the platform returns for a user id.
PlatformName(u) ==
    CASE u = "u1" -> "Alice"
      [] u = "u2" -> "bob"
      [] OTHER -> Undefined

ControlCommands == {"/new"}

----------------------------------------------------------------------------
(* context.ts: chat type, allowlists, dedupe *)

inferFeishuChatType(chatId) ==
    IF chatId = "" THEN Undefined
    ELSE IF IdPrefix(chatId) = "oc_" THEN "group"
    ELSE IF IdPrefix(chatId) = "ou_" THEN "direct"
    ELSE Undefined

normalizeFeishuChatType(chatType, chatId) ==
    IF chatType \in {"p2p", "direct", "im"} THEN "direct"
    ELSE IF chatType \in {"group", "chat"} THEN "group"
    ELSE IF inferFeishuChatType(chatId) # Undefined THEN inferFeishuChatType(chatId)
    ELSE "group"

LowerAll(list) == {Lower(x) : x \in list}

isFeishuUserAllowed(allowList, userId, userName) ==
    IF allowList = {} THEN FALSE
    ELSE IF "*" \in allowList THEN TRUE
    ELSE \/ Lower(userId) \in LowerAll(allowList)
         \/ (userName # Undefined /\ Lower(userName) \in LowerAll(allowList))

\* Variant of the match that compares the entries as they are written.
resolveFeishuAllowListMatchExact(allowList, id, name) ==
    IF allowList = {} THEN [allowed |-> FALSE, matchSource |-> Undefined]
    ELSE IF "*" \in allowList THEN [allowed |-> TRUE, matchSource |-> "*"]
    ELSE IF id \in allowList THEN [allowed |-> TRUE, matchSource |-> "id"]
    ELSE IF name # Undefined /\ name \in allowList
        THEN [allowed |-> TRUE, matchSource |-> "name"]
    ELSE [allowed |-> FALSE, matchSource |-> Undefined]

resolveFeishuAllowListMatch(allowList, id, name) ==
    IF allowList = {} THEN [allowed |-> FALSE, matchSource |-> Undefined]
    ELSE IF "*" \in allowList THEN [allowed |-> TRUE, matchSource |-> "*"]
    ELSE IF Lower(id) \in LowerAll(allowList)
        THEN [allowed |-> TRUE, matchSource |-> "id"]
    ELSE IF name # Undefined /\ Lower(name) \in LowerAll(allowList)
        THEN [allowed |-> TRUE, matchSource |-> "name"]
    ELSE [allowed |-> FALSE, matchSource |-> Undefined]

\* A per-group entry. enabled and allow are FALSE only when the configuration
\* says false (the code tests `=== false`); requireMention is "unset", "true"
\* or "false"; users is the entry's user allowlist.
NoGroupEntry ==
    [present |-> FALSE, enabled |-> TRUE, allow |-> TRUE,
     requireMention |-> "unset", users |-> {}]

\* groupsConfig?.[chatId] ?? groupsConfig?.["*"]; NoGroupEntry when neither
\* exists. A groupsConfig that is absent and one that is {} behave alike: both
\* are the function with the empty domain.
GroupEntry(c, chatId) ==
    IF chatId \in DOMAIN c.groupsConfig THEN c.groupsConfig[chatId]
    ELSE IF "*" \in DOMAIN c.groupsConfig THEN c.groupsConfig["*"]
    ELSE NoGroupEntry

isChatAllowed(c, chatId, chatType) ==
    LET ct == normalizeFeishuChatType(chatType, chatId)
        hasGroupConfig == DOMAIN c.groupsConfig # {}
        chatConfig == GroupEntry(c, chatId)
    IN  IF ct = "direct" /\ ~c.dmEnabled THEN FALSE
        ELSE IF ct = "group" /\ chatId # "" THEN
            IF c.groupPolicy = "disabled" THEN FALSE
            ELSE IF c.groupPolicy = "allowlist" /\ hasGroupConfig
                    /\ (\/ ~chatConfig.present
                        \/ chatConfig.enabled = FALSE
                        \/ chatConfig.allow = FALSE)
                THEN FALSE
            ELSE TRUE
        ELSE TRUE

\* createDedupeCache({ttlMs, maxSize}).check(key, now): the cache is a Map in
\* insertion order; a hit refreshes the entry, a miss inserts and prunes.
DedupeIndex(cache, key) ==
    IF \E i \in 1..Len(cache) : cache[i].key = key
    THEN CHOOSE i \in 1..Len(cache) : cache[i].key = key
    ELSE 0

DedupeHit(cache, key, t) ==
    /\ DedupeIndex(cache, key) # 0
    /\ t - cache[DedupeIndex(cache, key)].ts < DedupeTtl

DedupeTouch(cache, key, t) ==
    Append(SelectSeq(cache, LAMBDA x : x.key # key), [key |-> key, ts |-> t])

DedupeTrim(cache) ==
    IF Len(cache) > DedupeMaxSize
    THEN SubSeq(cache, Len(cache) - DedupeMaxSize + 1, Len(cache))
    ELSE cache

DedupePrune(cache, t) ==
    DedupeTrim(SelectSeq(cache, LAMBDA x : ~(x.ts < t - DedupeTtl)))

DedupeAfterCheck(cache, key, t) ==
    IF DedupeHit(cache, key, t) THEN DedupeTouch(cache, key, t)
    ELSE DedupePrune(DedupeTouch(cache, key, t), t)

\* markMessageSeen: TRUE means "already seen"; missing ids are never marked.
markMessageSeen(cache, chatId, messageId, t) ==
    IF chatId = "" \/ messageId = "" THEN FALSE
    ELSE DedupeHit(cache, <<chatId, messageId>>, t)

SeenAfterMark(cache, chatId, messageId, t) ==
    IF chatId = "" \/ messageId = "" THEN cache
    ELSE DedupeAfterCheck(cache, <<chatId, messageId>>, t)

----------------------------------------------------------------------------
(* message-handler.ts and prepare.ts: text extraction *)

\* A message content is the JSON string the platform sends: for a text message
\* {"text": ...}, for a post message {"zh_cn": {...}}. fmt names which of the
\* two shapes the JSON has, lines is the text it carries.
TextContent(lines) == [fmt |-> "text", lines |-> lines]
PostContent(lines) == [fmt |-> "post", lines |-> lines]

\* extractPostText: parsed.zh_cn ?? parsed.en_us, "" when the JSON has neither.
extractPostText(content) ==
    IF content.fmt = "post" THEN content.lines ELSE <<>>

\* extractMessageText: parses the content according to message_type.
extractMessageText(message) ==
    IF message.message_type = "text"
        THEN (IF message.content.fmt = "text" THEN message.content.lines ELSE <<>>)
    ELSE IF message.message_type = "post" THEN extractPostText(message.content)
    ELSE <<>>

\* hasControlCommand(text, cfg): the text carries a recognized control command.
hasControlCommand(text) ==
    \E i \in 1..Len(text) : text[i] \in ControlCommands

\* shouldHandleTextCommands({cfg, surface: "feishu"}): text commands are handled
\* on this surface.
shouldHandleTextCommands == TRUE

----------------------------------------------------------------------------
(* message-handler.ts: debouncer callbacks *)

\* Variant of buildKey that leaves the thread root out of the key.
buildKeyNoRoot(entry) ==
    IF entry.event.sender = "" THEN <<>>
    ELSE <<"feishu", AccountId, entry.event.chat_id, entry.event.sender>>

\* buildKey: `feishu:${accountId}:${chatId}[:${rootId}]:${senderId}`, null
\* (here <<>>) without a sender id.
buildKey(entry) ==
    LET m == entry.event
    IN  IF m.sender = "" THEN <<>>
        ELSE IF m.root_id # "" THEN <<"feishu", AccountId, m.chat_id, m.root_id, m.sender>>
        ELSE <<"feishu", AccountId, m.chat_id, m.sender>>

\* Variant of shouldDebounce that does not look for control commands.
shouldDebounceNonEmpty(entry) == extractMessageText(entry.event) # <<>>

shouldDebounce(entry) ==
    LET text == extractMessageText(entry.event)
    IN  IF text = <<>> THEN FALSE ELSE ~hasControlCommand(text)

RECURSIVE JoinTexts(_)
\* entries.map(extractMessageText).filter(Boolean).join("\n")
JoinTexts(entries) ==
    IF entries = <<>> THEN <<>>
    ELSE extractMessageText(Head(entries).event) \o JoinTexts(Tail(entries))

\* Variant of the combined text that keeps the last entry's text only.
CombinedTextLastOnly(entries) == extractMessageText(entries[Len(entries)].event)

\* onFlush, lines 45-52: the combined text of a flushed bucket.
CombinedText(entries) ==
    IF Len(entries) = 1 THEN extractMessageText(entries[Len(entries)].event)
    ELSE JoinTexts(entries)

\* onFlush, line 54.
CombinedMentioned(entries) ==
    \E i \in 1..Len(entries) : entries[i].opts.wasMentioned = "true"

\* onFlush, lines 57-66: the last event with its content replaced.
SyntheticEvent(entries) ==
    [entries[Len(entries)].event EXCEPT !.content = TextContent(CombinedText(entries))]

\* Variant of the options of a flush that keeps the flag of the last entry only.
FlushOptsLastOnly(entries) ==
    [wasMentioned |-> entries[Len(entries)].opts.wasMentioned]

\* onFlush, lines 72-74: combinedMentioned || last.opts.wasMentioned, where
\* wasMentioned is "true", "false" or Undefined.
FlushOpts(entries) ==
    [wasMentioned |->
        IF CombinedMentioned(entries) THEN "true"
        ELSE entries[Len(entries)].opts.wasMentioned]

\* events/messages.ts handleMessageReceive, lines 149-155.
ReceiveOpts(c, event) ==
    [wasMentioned |->
        IF c.botOpenId # "" /\ c.botOpenId \in event.mentions THEN "true" ELSE "false"]

----------------------------------------------------------------------------
(* threading.ts *)

\* String.prototype.trim on the ids of the runs: a blank id becomes "", an id
\* written with spaces around it loses them. A missing field is "".
Trim(s) ==
    CASE s = " " -> ""
      [] s = " m1 " -> "m1"
      [] s = " r1 " -> "r1"
      [] s = " p1 " -> "p1"
      [] OTHER -> s

\* x?.trim() || undefined
TrimmedOrUndefined(s) == IF Trim(s) = "" THEN Undefined ELSE Trim(s)

\* Variant that takes root_id as it is written, blank or not.
resolveFeishuThreadContextUntrimmed(message) ==
    IF message.root_id = ""
    THEN [rootId |-> Undefined, parentId |-> Undefined, isThreadReply |-> FALSE,
          replyToId |-> Undefined,
          messageThreadId |-> TrimmedOrUndefined(message.message_id)]
    ELSE [rootId |-> message.root_id,
          parentId |-> TrimmedOrUndefined(message.parent_id),
          isThreadReply |-> TRUE,
          replyToId |-> IF TrimmedOrUndefined(message.parent_id) # Undefined
                        THEN TrimmedOrUndefined(message.parent_id)
                        ELSE message.root_id,
          messageThreadId |-> message.root_id]

resolveFeishuThreadContext(message) ==
    LET rootId == TrimmedOrUndefined(message.root_id)
        parentId == TrimmedOrUndefined(message.parent_id)
        messageId == TrimmedOrUndefined(message.message_id)
    IN  IF rootId = Undefined
        THEN [rootId |-> Undefined, parentId |-> Undefined, isThreadReply |-> FALSE,
              replyToId |-> Undefined, messageThreadId |-> messageId]
        ELSE [rootId |-> rootId, parentId |-> parentId, isThreadReply |-> TRUE,
              replyToId |-> IF parentId # Undefined THEN parentId ELSE rootId,
              messageThreadId |-> rootId]

----------------------------------------------------------------------------
(* prepare.ts: prepareFeishuMessage, the access-control gate *)

ResolvedChatType(ev) == normalizeFeishuChatType(ev.chat_type, ev.chat_id)
IsDirectMessage(ev) == ResolvedChatType(ev) = "direct"
IsGroup(ev) == ResolvedChatType(ev) = "group"

\* line 88
GroupConfigOf(c, ev) ==
    IF IsGroup(ev) THEN GroupEntry(c, ev.chat_id) ELSE NoGroupEntry

\* Variant of the disabled test that looks at dm.enabled only.
DmDisabledByEnabledOnly(c) == ~c.dmEnabled

\* Variant of the policy test that asks for a match under every policy.
DmAlwaysNeedsMatch(c) == TRUE

\* lines 92-95
DmDisabled(c) == ~c.dmEnabled \/ c.dmPolicy = "disabled"

\* lines 97-104: the sender needs an allowlist match unless the policy is open.
DmNeedsMatch(c) == c.dmPolicy # "open"

\* Variant that replies to every unmatched message.
AlwaysSendPairingReply(created) == TRUE

\* line 114: the pairing reply is sent only for a request that was created.
ShouldSendPairingReply(created) == created

\* Lines 52-138, up to the first await that touches shared state: the chat and
\* direct-message stages. "continue" goes on to line 140, "pairing" to the
\* pairing request of lines 106-129, every other outcome returns null.
Prepare1(c, ev) ==
    IF ev.chat_id = "" \/ ev.sender = "" THEN "drop:missing-ids"
    ELSE IF ~isChatAllowed(c, ev.chat_id, ResolvedChatType(ev)) THEN "drop:chat-not-allowed"
    ELSE IF IsDirectMessage(ev) THEN
        IF DmDisabled(c) THEN "drop:dm-disabled"
        ELSE IF DmNeedsMatch(c)
                /\ ~resolveFeishuAllowListMatch(c.allowFrom, ev.sender, Undefined).allowed
            THEN (IF c.dmPolicy = "pairing" THEN "pairing" ELSE "drop:dm-unauthorized")
        ELSE "continue"
    ELSE "continue"

\* upsertChannelPairingRequest: creates the sender's request unless one is pending.
PairingCreated(store, id) == id \notin store
PairingAfterUpsert(store, id) == store \cup {id}

\* resolveAgentRoute(...).sessionKey for the peer of the turn.
RouteSessionKey(ev) ==
    IF IsDirectMessage(ev) THEN <<"agent", "feishu", AccountId, "dm", ev.sender>>
    ELSE <<"agent", "feishu", AccountId, "channel", ev.chat_id>>

\* resolveThreadSessionKeys({baseSessionKey, threadId}).sessionKey
resolveThreadSessionKeys(baseSessionKey, threadId) ==
    IF threadId = Undefined THEN baseSessionKey
    ELSE baseSessionKey \o <<"thread", threadId>>

\* lines 151-160
SessionKeyOf(ev) ==
    LET tc == resolveFeishuThreadContext(ev)
    IN  resolveThreadSessionKeys(RouteSessionKey(ev),
                                 IF tc.isThreadReply THEN tc.rootId ELSE Undefined)

\* Variant of the history key that is the chat id for thread replies too.
HistoryKeyChatOnly(ev) == <<ev.chat_id>>

\* line 161; the bare chat id is the one-element key <<chatId>>.
HistoryKeyOf(ev) ==
    IF resolveFeishuThreadContext(ev).isThreadReply THEN SessionKeyOf(ev)
    ELSE <<ev.chat_id>>

\* line 165: senderInfo?.name ?? sender.sender_id?.user_id ?? senderId, where
\* resolved is the name resolveUserName returned (Undefined on failure).
SenderNameOf(ev, resolved) ==
    IF resolved # Undefined THEN resolved ELSE ev.sender

\* Variant of the per-group user stage that matches the sender id only.
GroupUserAuthorizedByIdOnly(c, ev, senderName) ==
    IF IsGroup(ev)
    THEN \/ isFeishuUserAllowed(GroupConfigOf(c, ev).users, ev.sender, Undefined)
         \/ ~(GroupConfigOf(c, ev).users # {})
    ELSE TRUE

\* lines 168-174
GroupUserAuthorized(c, ev, senderName) ==
    IF IsGroup(ev)
    THEN \/ isFeishuUserAllowed(GroupConfigOf(c, ev).users, ev.sender, senderName)
         \/ ~(GroupConfigOf(c, ev).users # {})
    ELSE TRUE

\* matchesMentionWithExplicit: the explicit mention when it can be resolved,
\* else the configured text patterns.
matchesMentionWithExplicit(c, text, explicit) ==
    IF explicit.canResolveExplicit THEN explicit.isExplicitlyMentioned
    ELSE \E i \in 1..Len(text) : text[i] \in c.mentionPatterns

\* lines 189-207
PrepareWasMentioned(c, ev, opts, rawBody) ==
    IF opts.wasMentioned # Undefined THEN opts.wasMentioned = "true"
    ELSE /\ ~IsDirectMessage(ev)
         /\ matchesMentionWithExplicit(c, rawBody,
                [hasAnyMention |-> ev.mentions # {},
                 isExplicitlyMentioned |-> c.botOpenId # "" /\ c.botOpenId \in ev.mentions,
                 canResolveExplicit |-> c.botOpenId # ""])

\* Variant of the owner match that looks at the sender id only.
OwnerAuthorizedByIdOnly(c, ev, senderName) ==
    resolveFeishuAllowListMatch(c.allowFrom, ev.sender, Undefined).allowed

\* lines 213-217
OwnerAuthorized(c, ev, senderName) ==
    resolveFeishuAllowListMatch(c.allowFrom, ev.sender, senderName).allowed

\* lines 219-220
GroupUsersAllowlistConfigured(c, ev) ==
    IsGroup(ev) /\ GroupConfigOf(c, ev).users # {}

\* lines 222-229
GroupCommandAuthorized(c, ev, senderName) ==
    IF IsGroup(ev) /\ GroupUsersAllowlistConfigured(c, ev)
    THEN isFeishuUserAllowed(GroupConfigOf(c, ev).users, ev.sender, senderName)
    ELSE FALSE

\* lines 233-236: the authorizers handed to the command gate.
CommandAuthorizers(c, ev, senderName) ==
    << [configured |-> c.allowFrom # {}, allowed |-> OwnerAuthorized(c, ev, senderName)],
       [configured |-> GroupUsersAllowlistConfigured(c, ev),
        allowed |-> GroupCommandAuthorized(c, ev, senderName)] >>

\* resolveControlCommandGate: authorized by any configured authorizer that
\* allows; a control command that is not authorized is to be blocked.
resolveControlCommandGate(authorizers, allowTextCommands, hasCommand) ==
    LET authorized ==
            \E i \in 1..Len(authorizers) :
                authorizers[i].configured /\ authorizers[i].allowed
    IN  [commandAuthorized |-> authorized,
         shouldBlock |-> allowTextCommands /\ hasCommand /\ ~authorized]

\* lines 253-255
ShouldRequireMention(c, ev) ==
    IF IsGroup(ev)
    THEN (IF GroupConfigOf(c, ev).requireMention = "unset" THEN c.defaultRequireMention
          ELSE GroupConfigOf(c, ev).requireMention = "true")
    ELSE FALSE

\* resolveMentionGatingWithBypass: an authorized control command stands for a
\* mention; a turn that requires a mention and has none is to be skipped.
resolveMentionGatingWithBypass(p) ==
    LET shouldBypassMention ==
            /\ p.isGroup /\ p.requireMention /\ ~p.wasMentioned
            /\ p.allowTextCommands /\ p.commandAuthorized /\ p.hasControlCommand
        effective == p.wasMentioned \/ p.implicitMention \/ shouldBypassMention
    IN  [effectiveWasMentioned |-> effective,
         shouldSkip |-> p.requireMention /\ ~effective,
         shouldBypassMention |-> shouldBypassMention]

\* lines 231-240
CommandGateOf(c, ev, senderName, rawBody) ==
    resolveControlCommandGate(CommandAuthorizers(c, ev, senderName),
                              shouldHandleTextCommands, hasControlCommand(rawBody))

\* Variant of the mention gate call that never reports an authorized command.
MentionGateNoBypass(c, ev, opts, senderName, rawBody) ==
    resolveMentionGatingWithBypass(
        [isGroup |-> IsGroup(ev),
         requireMention |-> ShouldRequireMention(c, ev),
         canDetectMention |-> c.botOpenId # "" \/ c.mentionPatterns # {},
         wasMentioned |-> PrepareWasMentioned(c, ev, opts, rawBody),
         implicitMention |-> FALSE,
         hasAnyMention |-> ev.mentions # {},
         allowTextCommands |-> shouldHandleTextCommands,
         hasControlCommand |-> hasControlCommand(rawBody),
         commandAuthorized |-> FALSE])

\* lines 257-268
MentionGateOf(c, ev, opts, senderName, rawBody) ==
    resolveMentionGatingWithBypass(
        [isGroup |-> IsGroup(ev),
         requireMention |-> ShouldRequireMention(c, ev),
         canDetectMention |-> c.botOpenId # "" \/ c.mentionPatterns # {},
         wasMentioned |-> PrepareWasMentioned(c, ev, opts, rawBody),
         implicitMention |-> FALSE,
         hasAnyMention |-> ev.mentions # {},
         allowTextCommands |-> shouldHandleTextCommands,
         hasControlCommand |-> hasControlCommand(rawBody),
         commandAuthorized |-> CommandGateOf(c, ev, senderName, rawBody).commandAuthorized])

\* Variant of the later stages with the mention stage ahead of the command stage.
Prepare2MentionFirst(c, ev, opts, senderName) ==
    LET rawBody == extractMessageText(ev)
    IN  IF IsGroup(ev) /\ ~GroupUserAuthorized(c, ev, senderName) THEN "drop:group-user"
        ELSE IF rawBody = <<>> THEN "drop:empty-body"
        ELSE IF IsGroup(ev) /\ ShouldRequireMention(c, ev)
                /\ MentionGateOf(c, ev, opts, senderName, rawBody).shouldSkip
            THEN "skip:no-mention"
        ELSE IF IsGroup(ev) /\ CommandGateOf(c, ev, senderName, rawBody).shouldBlock
            THEN "drop:command-unauthorized"
        ELSE "pass"

\* Lines 164-288: the stages after the sender name is known. "pass" goes on to
\* build the context, "skip:no-mention" records the turn in the pending
\* history, every other outcome returns null with no further effect.
Prepare2(c, ev, opts, senderName) ==
    LET rawBody == extractMessageText(ev)
    IN  IF IsGroup(ev) /\ ~GroupUserAuthorized(c, ev, senderName) THEN "drop:group-user"
        ELSE IF rawBody = <<>> THEN "drop:empty-body"
        ELSE IF IsGroup(ev) /\ CommandGateOf(c, ev, senderName, rawBody).shouldBlock
            THEN "drop:command-unauthorized"
        ELSE IF IsGroup(ev) /\ ShouldRequireMention(c, ev)
                /\ MentionGateOf(c, ev, opts, senderName, rawBody).shouldSkip
            THEN "skip:no-mention"
        ELSE "pass"

----------------------------------------------------------------------------
(* history.ts: pending history *)

HistoryOf(h, key) == IF key \in DOMAIN h THEN h[key] ELSE <<>>

\* recordPendingHistoryEntryIfEnabled: appends, then drops the oldest entries
\* beyond the limit; does nothing when the limit is not positive.
recordPendingHistoryEntryIfEnabled(h, key, limit, entry) ==
    IF limit <= 0 THEN h
    ELSE LET all == Append(HistoryOf(h, key), entry)
             kept == IF Len(all) > limit
                     THEN SubSeq(all, Len(all) - limit + 1, Len(all)) ELSE all
         IN  [k \in DOMAIN h \cup {key} |-> IF k = key THEN kept ELSE h[k]]

\* buildPendingHistoryContextFromMap: the entries of the key, then the current
\* message; the map is left as it is.
buildPendingHistoryContextFromMap(h, key, limit, currentMessage) ==
    [history |-> IF limit <= 0 THEN <<>> ELSE HistoryOf(h, key),
     current |-> currentMessage]

\* lines 274-286: the entry recorded for a turn skipped for want of a mention.
HistoryEntryOf(ev, senderName) ==
    [sender |-> senderName, body |-> extractMessageText(ev), messageId |-> ev.message_id]

\* Variant in which the entries injected into a turn are cleared from the map.
HistoryClearedAfterInjection(h, key) ==
    [k \in DOMAIN h \ {key} |-> h[k]]

\* The map after a turn passed the gate: buildPendingHistoryContextFromMap
\* reads it, and no later line of prepare.ts or dispatch.ts clears the key.
HistoryAfterInjection(h, key) == h

\* Variant of the body that injects no pending history.
CombinedBodyNoHistory(c, h, ev) ==
    [history |-> <<>>, current |-> extractMessageText(ev)]

\* lines 334-354: the body handed to the engine.
CombinedBodyOf(c, h, ev) ==
    IF IsGroup(ev) /\ c.historyLimit > 0
    THEN buildPendingHistoryContextFromMap(h, HistoryKeyOf(ev), c.historyLimit,
                                           extractMessageText(ev))
    ELSE [history |-> <<>>, current |-> extractMessageText(ev)]

----------------------------------------------------------------------------
(* Configurations and events *)

NoGroups == [x \in {} |-> NoGroupEntry]

GroupEntryOf(enabled, allow, requireMention, users) ==
    [present |-> TRUE, enabled |-> enabled, allow |-> allow,
     requireMention |-> requireMention, users |-> users]

\* createFeishuMonitorProvider, lines 59-69: the defaults of an account.
DefaultCfg ==
    [dmEnabled |-> TRUE, dmPolicy |-> "pairing", allowFrom |-> {},
     groupPolicy |-> "allowlist", groupsConfig |-> NoGroups,
     defaultRequireMention |-> TRUE, historyLimit |-> MaxHistoryLimit,
     botOpenId |-> BotId, mentionPatterns |-> {}]

Msg(chat, ctype, mid, root, sender, mtype, lines, mentions) ==
    [chat_id |-> chat, chat_type |-> ctype, message_id |-> mid, root_id |-> root,
     parent_id |-> "", sender |-> sender, message_type |-> mtype,
     content |-> IF mtype = "post" THEN PostContent(lines)
                 ELSE IF mtype = "text" THEN TextContent(lines)
                 ELSE [fmt |-> mtype, lines |-> <<>>],
     mentions |-> mentions]

\* The events of the runs, by name.
Ev(name) ==
    CASE name = "d1" -> Msg("ou_d1", "p2p", "m1", "", "u1", "text", <<"a">>, {})
      [] name = "d2" -> Msg("ou_d1", "p2p", "m2", "", "u1", "text", <<"b">>, {})
      [] name = "d3" -> Msg("ou_d1", "p2p", "", "", "u1", "text", <<"c">>, {})
      [] name = "d4" -> Msg("ou_d1", "p2p", "m4", "", "u1", "text", <<"/new">>, {})
      [] name = "d5" -> Msg("ou_d2", "p2p", "m5", "", "u2", "text", <<"a">>, {})
      [] name = "d6" -> Msg("ou_d1", "p2p", "m6", "", "u1", "image", <<>>, {})
      [] name = "g1" -> Msg("oc_g1", "group", "m1", "", "u1", "text", <<"a">>, {})
      [] name = "g2" -> Msg("oc_g1", "group", "m2", "", "u2", "text", <<"b">>, {})
      [] name = "g3" -> Msg("oc_g1", "group", "m3", "", "u1", "text", <<"c">>, {BotId})
      [] name = "g4" -> Msg("oc_g1", "group", "m4", "r1", "u1", "text", <<"d">>, {BotId})
      [] name = "g5" -> Msg("oc_g1", "group", "m5", "", "u1", "text", <<"/new">>, {})
      [] name = "g6" -> Msg("oc_g1", "group", "m6", "", "u2", "post", <<"e">>, {BotId})
      [] name = "g7" -> Msg("oc_g1", "group", "m7", "r1", "u1", "text", <<"f">>, {})
      [] name = "g8" -> Msg("oc_g1", "group", "m8", "", "u1", "text", <<"hey-bot">>, {})

DmEvents == {"d1", "d2", "d3", "d4", "d5", "d6"}
GroupEvents == {"g1", "g2", "g3", "g4", "g5", "g6", "g7", "g8"}

Scenario(c, events, n, up) == [cfg |-> c, pool |-> events, budget |-> n, directoryUp |-> up]

\* Direct-message runs: dedupe, debounce and pairing.
Scenarios ==
    { Scenario([DefaultCfg EXCEPT !.dmPolicy = "open"], {"d1", "d2", "d3", "d4"},
               MaxEvents, TRUE),
      Scenario([DefaultCfg EXCEPT !.dmPolicy = "pairing"], {"d1", "d2", "d5"},
               MaxEvents, TRUE),
      Scenario([DefaultCfg EXCEPT !.dmPolicy = "pairing", !.allowFrom = {"u2"}],
               {"d1", "d5"}, MaxEvents, FALSE),
      Scenario([DefaultCfg EXCEPT !.dmEnabled = FALSE], {"d1"}, MaxEvents, TRUE),
      Scenario([DefaultCfg EXCEPT !.dmPolicy = "open"], {"d1", "d6"},
               MaxEvents, FALSE) }

\* Group runs: the pending history of a chat.
HistoryScenarios ==
    { Scenario([DefaultCfg EXCEPT !.groupPolicy = "open", !.historyLimit = h],
               {"g1", "g2", "g3", "g5"}, MaxEvents, TRUE) : h \in 0..1 }
    \cup { Scenario([DefaultCfg EXCEPT !.groupPolicy = "open",
                                       !.historyLimit = MaxHistoryLimit,
                                       !.allowFrom = {"U1"}],
                    {"g1", "g4", "g5"}, MaxEvents, TRUE),
           Scenario([DefaultCfg EXCEPT !.groupPolicy = "open", !.historyLimit = 1],
                    {"g3", "g4", "g7"}, MaxEvents, TRUE),
           Scenario(DefaultCfg, {"d1"}, MaxEvents, FALSE) }

\* Single-turn runs over the configurations of the access-control gate.
GateAllowFroms == { {}, {"U1"}, {"alice"}, {"*"} }

GateGroupsConfigs ==
    { NoGroups,
      [x \in {"oc_g1"} |-> GroupEntryOf(TRUE, TRUE, "unset", {})],
      [x \in {"oc_g1"} |-> GroupEntryOf(FALSE, TRUE, "unset", {})],
      [x \in {"oc_g1"} |-> GroupEntryOf(TRUE, FALSE, "unset", {})],
      [x \in {"oc_g1"} |-> GroupEntryOf(TRUE, TRUE, "false", {"u1"})],
      [x \in {"oc_g1"} |-> GroupEntryOf(TRUE, TRUE, "true", {"bob"})],
      [x \in {"oc_g1"} |-> GroupEntryOf(TRUE, TRUE, "unset", {"U1"})],
      [x \in {"oc_g1"} |-> GroupEntryOf(TRUE, TRUE, "unset", {"*"})],
      [x \in {"*"} |-> GroupEntryOf(TRUE, TRUE, "unset", {})],
      [x \in {"*"} |-> GroupEntryOf(FALSE, TRUE, "unset", {})],
      [x \in {"oc_g2"} |-> GroupEntryOf(TRUE, TRUE, "unset", {})],
      [x \in {"oc_g1", "*"} |->
          IF x = "*" THEN GroupEntryOf(TRUE, TRUE, "unset", {})
          ELSE GroupEntryOf(FALSE, TRUE, "unset", {})] }

GateDmCfgs ==
    { [DefaultCfg EXCEPT !.dmEnabled = en, !.dmPolicy = pol, !.allowFrom = al] :
        en \in BOOLEAN, pol \in {"open", "pairing", "allowlist", "disabled"},
        al \in GateAllowFroms }

GateGroupCfgs ==
    { [DefaultCfg EXCEPT !.groupPolicy = pol, !.groupsConfig = gc, !.allowFrom = al,
                         !.defaultRequireMention = rm, !.historyLimit = 1] :
        pol \in {"open", "allowlist", "disabled"}, gc \in GateGroupsConfigs,
        al \in GateAllowFroms, rm \in BOOLEAN }

\* Configurations in which the bot's own platform id is not known.
GateMentionCfgs ==
    { [DefaultCfg EXCEPT !.groupPolicy = "open", !.botOpenId = "",
                         !.mentionPatterns = mp, !.defaultRequireMention = rm] :
        mp \in { {"hey-bot"} }, rm \in BOOLEAN }

GateScenarios ==
    { Scenario(c, DmEvents, 1, up) : c \in GateDmCfgs, up \in BOOLEAN }
    \cup { Scenario(c, GroupEvents, 1, up) : c \in GateGroupCfgs, up \in BOOLEAN }
    \cup { Scenario(c, GroupEvents, 1, TRUE) : c \in GateMentionCfgs }

----------------------------------------------------------------------------
(* State machine *)

\* A queued item {event, opts} of the debouncer; n is its arrival number.
Entry(x) == [event |-> Ev(x.id), opts |-> ReceiveOpts(cfg, Ev(x.id)), n |-> x.n]

RECURSIVE Entries(_)
Entries(xs) == IF xs = <<>> THEN <<>> ELSE <<Entry(Head(xs))>> \o Entries(Tail(xs))

\* The event and the options onFlush hands to prepareFeishuMessage.
TurnEvent(turn) == SyntheticEvent(Entries(turn.entries))
TurnOpts(turn) == FlushOpts(Entries(turn.entries))

\* The context of a turn for which none was built.
NoCtx ==
    [Body |-> [history |-> <<>>, current |-> <<>>], RawBody |-> <<>>,
     SessionKey |-> <<>>, ReplyToId |-> Undefined, WasMentioned |-> FALSE,
     CommandAuthorized |-> FALSE]

\* onFlush(entries): synchronously, the stages of prepareFeishuMessage up to
\* its first await on shared state. waitFor is the turn whose completion the
\* caller awaits before this one starts (0: none).
\* Variant of the flush that hands on the last entry of the bucket only.
NewTurnLastOnly(xs, origin, waitFor) ==
    LET r1 == Prepare1(cfg, SyntheticEvent(Entries(<<xs[Len(xs)]>>)))
    IN  [entries |-> <<xs[Len(xs)]>>, origin |-> origin, waitFor |-> waitFor,
         flushedAt |-> received,
         outcome |-> IF r1 \in {"continue", "pairing"} THEN "" ELSE r1,
         pc |-> IF r1 = "continue" THEN "resolve"
                ELSE IF r1 = "pairing" THEN "pairing" ELSE "done",
         senderName |-> Undefined, seq |-> 0, ctx |-> NoCtx,
         pairingCreated |-> FALSE, pairingSends |-> 0, sendFailed |-> FALSE,
         pairingFailureLogged |-> FALSE,
         engineCalls |-> 0, sends |-> 0, errorLogged |-> FALSE]

NewTurn(xs, origin, waitFor) ==
    LET r1 == Prepare1(cfg, SyntheticEvent(Entries(xs)))
    IN  [entries |-> xs, origin |-> origin, waitFor |-> waitFor,
         flushedAt |-> received,
         outcome |-> IF r1 \in {"continue", "pairing"} THEN "" ELSE r1,
         pc |-> IF r1 = "continue" THEN "resolve"
                ELSE IF r1 = "pairing" THEN "pairing" ELSE "done",
         senderName |-> Undefined, seq |-> 0, ctx |-> NoCtx,
         pairingCreated |-> FALSE, pairingSends |-> 0, sendFailed |-> FALSE,
         pairingFailureLogged |-> FALSE,
         engineCalls |-> 0, sends |-> 0, errorLogged |-> FALSE]

NoMatchCall == [pc |-> "none"]
NoThreadCall == [pc |-> "none"]
NoReplyRun == [pc |-> "none"]
NoSendRuns == [runs |-> <<>>, log |-> <<>>]
NoPlanRun == [pc |-> "none"]
NoChunkCall == [pc |-> "none"]
NoProviders == [a \in {} |-> 0]
NoProviderCalls == [calls |-> <<>>, stopped |-> {}]

\* Nothing of the helpers below is in progress.
CallsAtRest ==
    /\ sendRuns = NoSendRuns
    /\ planRun = NoPlanRun
    /\ chunkCall = NoChunkCall
    /\ activeProviders = NoProviders
    /\ providerCalls = NoProviderCalls

InitOf(scenarios) ==
    /\ \E sc \in scenarios :
        /\ cfg = sc.cfg
        /\ pool = sc.pool
        /\ budget = sc.budget
        /\ directoryUp = sc.directoryUp
    /\ received = 0
    /\ now = 0
    /\ seenMessages = <<>>
    /\ buffers = [k \in {} |-> <<>>]
    /\ turns = <<>>
    /\ userCache = {}
    /\ pairingStore = {}
    /\ chatHistories = [k \in {} |-> <<>>]
    /\ deliveries = <<>>
    /\ matchCall = NoMatchCall
    /\ threadCall = NoThreadCall
    /\ replyRun = NoReplyRun
    /\ stoppedAt = -1
    /\ CallsAtRest

Init == InitOf(Scenarios)

\* Time passes; it is observed only by the entries of the dedupe cache.
Tick ==
    /\ now < MaxTime
    /\ seenMessages # <<>>
    /\ now' = now + 1
    /\ UNCHANGED <<cfg, pool, budget, received, seenMessages, buffers, turns,
                   userCache, pairingStore, chatHistories, deliveries, directoryUp, matchCall, threadCall, replyRun, stoppedAt,
                sendRuns, planRun, chunkCall, activeProviders, providerCalls>>

\* createInboundDebouncer(...).enqueue(item): an item that may not be debounced
\* flushes the pending bucket of its key, then is flushed on its own; otherwise
\* it joins (or opens) the bucket of its key and the quiet-period timer restarts.
EnqueueTurns(x) ==
    LET key == buildKey(Entry(x))
    IN  IF ~shouldDebounce(Entry(x)) \/ key = <<>> THEN
            IF key # <<>> /\ key \in DOMAIN buffers
            THEN LET first == NewTurn(buffers[key], "command", 0)
                 IN  <<first, NewTurn(<<x>>, "immediate",
                                      IF first.pc = "done" THEN 0 ELSE Len(turns) + 1)>>
            ELSE <<NewTurn(<<x>>, "immediate", 0)>>
        ELSE <<>>

EnqueueBuffers(x) ==
    LET key == buildKey(Entry(x))
    IN  IF ~shouldDebounce(Entry(x)) \/ key = <<>>
        THEN [k \in DOMAIN buffers \ {key} |-> buffers[k]]
        ELSE [k \in DOMAIN buffers \cup {key} |->
                IF k = key
                THEN (IF key \in DOMAIN buffers THEN Append(buffers[key], x)
                      ELSE <<x>>)
                ELSE buffers[k]]

\* Variant of the handler that skips the duplicate check.
HandlerNeverDrops(e) == FALSE

\* message-handler.ts lines 98-109: TRUE when the handler drops the event.
HandlerDrops(e) == markMessageSeen(seenMessages, e.chat_id, e.message_id, now)

\* The platform delivers the event named id: handleMessageReceive, then the
\* message handler (dedupe), then debouncer.enqueue.
Receive(id) ==
    /\ received < budget
    /\ received' = received + 1
    /\ seenMessages' = SeenAfterMark(seenMessages, Ev(id).chat_id, Ev(id).message_id, now)
    /\ deliveries' = Append(deliveries, [id |-> id, at |-> now,
                                         accepted |-> ~HandlerDrops(Ev(id))])
    /\ IF HandlerDrops(Ev(id))
       THEN UNCHANGED <<buffers, turns>>
       ELSE LET x == [id |-> id, n |-> received + 1]
            IN  /\ buffers' = EnqueueBuffers(x)
                /\ turns' = turns \o EnqueueTurns(x)
    /\ UNCHANGED <<cfg, pool, budget, now, userCache, pairingStore, chatHistories, directoryUp, matchCall, threadCall, replyRun, stoppedAt,
                sendRuns, planRun, chunkCall, activeProviders, providerCalls>>

\* Variant of the timer that a second arrival cancels without arming it again.
TimerFireFirstOnly(key) ==
    /\ key \in DOMAIN buffers
    /\ Len(buffers[key]) = 1
    /\ buffers' = [k \in DOMAIN buffers \ {key} |-> buffers[k]]
    /\ turns' = Append(turns, NewTurn(buffers[key], "timer", 0))
    /\ UNCHANGED <<cfg, pool, budget, received, now, seenMessages, userCache,
                   pairingStore, chatHistories, deliveries, directoryUp, matchCall,
                   threadCall, replyRun, stoppedAt,
                sendRuns, planRun, chunkCall, activeProviders, providerCalls>>

\* The quiet-period timer of a bucket expires: flushBuffer.
TimerFire(key) ==
    /\ key \in DOMAIN buffers
    /\ buffers' = [k \in DOMAIN buffers \ {key} |-> buffers[k]]
    /\ turns' = Append(turns, NewTurn(buffers[key], "timer", 0))
    /\ UNCHANGED <<cfg, pool, budget, received, now, seenMessages, userCache,
                   pairingStore, chatHistories, deliveries, directoryUp, matchCall, threadCall, replyRun, stoppedAt,
                sendRuns, planRun, chunkCall, activeProviders, providerCalls>>

\* A turn runs when it has not returned and the flush it waits for has.
Runnable(t) ==
    /\ t \in 1..Len(turns)
    /\ turns[t].pc # "done"
    /\ IF turns[t].waitFor = 0 THEN TRUE ELSE turns[turns[t].waitFor].pc = "done"

\* resolveUserName(userId): the cached entry, else the platform's answer when
\* the lookup succeeds, else no name.
ResolvedName(userId, ok) ==
    IF userId \in userCache \/ ok THEN PlatformName(userId) ELSE Undefined

CacheAfterResolve(userId, ok) ==
    IF ok THEN userCache \cup {userId} ELSE userCache

\* Variant in which a pairing request whose reply could not be sent is not kept.
PairingStepForgetting(t) ==
    /\ Runnable(t)
    /\ turns[t].pc = "pairing"
    /\ userCache' = CacheAfterResolve(TurnEvent(turns[t]).sender, directoryUp)
    /\ \E sent \in BOOLEAN :
        LET created == PairingCreated(pairingStore, TurnEvent(turns[t]).sender)
        IN  /\ pairingStore' =
                    IF ShouldSendPairingReply(created) /\ ~sent THEN pairingStore
                    ELSE PairingAfterUpsert(pairingStore, TurnEvent(turns[t]).sender)
            /\ turns' = [turns EXCEPT
                    ![t].pairingCreated = created,
                    ![t].outcome = "drop:pairing",
                    ![t].pairingSends = IF ShouldSendPairingReply(created) THEN @ + 1 ELSE @,
                    ![t].sendFailed = ShouldSendPairingReply(created) /\ ~sent,
                    ![t].pairingFailureLogged = ShouldSendPairingReply(created) /\ ~sent,
                    ![t].pc = "done"]
    /\ UNCHANGED <<cfg, pool, budget, received, now, seenMessages, buffers,
                   chatHistories, deliveries, directoryUp, matchCall, threadCall, replyRun,
                   stoppedAt, sendRuns, planRun, chunkCall, activeProviders, providerCalls>>

\* prepare.ts lines 106-135: the sender's name is looked up, the pairing
\* request upserted and, for a request just created, the pairing reply sent;
\* a failure of the send is caught and logged. The turn returns null.
PairingStep(t) ==
    /\ Runnable(t)
    /\ turns[t].pc = "pairing"
    /\ userCache' = CacheAfterResolve(TurnEvent(turns[t]).sender, directoryUp)
    /\ pairingStore' = PairingAfterUpsert(pairingStore, TurnEvent(turns[t]).sender)
    /\ \E sent \in BOOLEAN :
        LET created == PairingCreated(pairingStore, TurnEvent(turns[t]).sender)
        IN  turns' = [turns EXCEPT
                ![t].pairingCreated = created,
                ![t].outcome = "drop:pairing",
                ![t].pairingSends = IF ShouldSendPairingReply(created) THEN @ + 1 ELSE @,
                ![t].sendFailed = ShouldSendPairingReply(created) /\ ~sent,
                ![t].pairingFailureLogged = ShouldSendPairingReply(created) /\ ~sent,
                ![t].pc = "done"]
    /\ UNCHANGED <<cfg, pool, budget, received, now, seenMessages, buffers,
                   chatHistories, deliveries, directoryUp, matchCall, threadCall, replyRun, stoppedAt,
                sendRuns, planRun, chunkCall, activeProviders, providerCalls>>

\* prepare.ts lines 334-385: the context payload of a turn that passed, built
\* from the pending history h at that moment.
CtxPayload(c, h, ev, opts, senderName) ==
    LET raw == extractMessageText(ev)
    IN  [Body |-> CombinedBodyOf(c, h, ev),
         RawBody |-> raw,
         SessionKey |-> SessionKeyOf(ev),
         ReplyToId |-> resolveFeishuThreadContext(ev).replyToId,
         WasMentioned |->
            IsGroup(ev) /\ MentionGateOf(c, ev, opts, senderName,
                                         raw).effectiveWasMentioned,
         CommandAuthorized |->
            CommandGateOf(c, ev, senderName, raw).commandAuthorized]

\* The number of turns whose later stages have been evaluated.
Evaluated == Cardinality({t \in 1..Len(turns) : turns[t].seq > 0})

\* prepare.ts lines 164-431: the sender's name is looked up, the remaining
\* stages are evaluated, and the turn is recorded in the pending history, or
\* its context is built (with the pending history of its key injected), or it
\* is dropped.
\* Variant of the flush callback that dispatches whatever the gate returned.
AlwaysDispatch(r2) == "dispatch"

\* message-handler.ts lines 68-87: a turn the gate did not prepare ends there;
\* a prepared one is dispatched.
AfterPrepare(r2) == IF r2 = "pass" THEN "dispatch" ELSE "done"

Prepare2Step(t) ==
    /\ Runnable(t)
    /\ turns[t].pc = "resolve"
    /\  LET ev == TurnEvent(turns[t])
            name == SenderNameOf(ev, ResolvedName(ev.sender, directoryUp))
            r2 == Prepare2(cfg, ev, TurnOpts(turns[t]), name)
        IN  /\ userCache' = CacheAfterResolve(ev.sender, directoryUp)
            /\ chatHistories' =
                IF r2 = "skip:no-mention"
                THEN recordPendingHistoryEntryIfEnabled(chatHistories, HistoryKeyOf(ev),
                        cfg.historyLimit, HistoryEntryOf(ev, name))
                ELSE IF r2 = "pass"
                THEN HistoryAfterInjection(chatHistories, HistoryKeyOf(ev))
                ELSE chatHistories
            /\ turns' = [turns EXCEPT
                    ![t].senderName = name,
                    ![t].outcome = r2,
                    ![t].seq = Evaluated + 1,
                    ![t].ctx = IF r2 = "pass"
                               THEN CtxPayload(cfg, chatHistories, ev,
                                               TurnOpts(turns[t]), name)
                               ELSE NoCtx,
                    ![t].pc = AfterPrepare(r2)]
    /\ UNCHANGED <<cfg, pool, budget, received, now, seenMessages, buffers,
                   pairingStore, deliveries, directoryUp, matchCall, threadCall, replyRun, stoppedAt,
                sendRuns, planRun, chunkCall, activeProviders, providerCalls>>

\* dispatch.ts dispatchPreparedFeishuMessage: the engine is invoked with the
\* context of the prepared turn and its replies (none when it fails or stays
\* silent) are sent.
\* Variant of the dispatch that starts over after an error.
DispatchRetrying(t) ==
    /\ Runnable(t)
    /\ turns[t].pc = "dispatch"
    /\ \E k \in 0..MaxReplies, err \in BOOLEAN :
        turns' = [turns EXCEPT ![t].engineCalls = @ + 1,
                               ![t].sends = k,
                               ![t].errorLogged = err,
                               ![t].pc = IF err THEN "dispatch" ELSE "done"]
    /\ UNCHANGED <<cfg, pool, budget, received, now, seenMessages, buffers,
                   userCache, pairingStore, chatHistories, deliveries, directoryUp,
                   matchCall, threadCall, replyRun, stoppedAt,
                sendRuns, planRun, chunkCall, activeProviders, providerCalls>>

\* The engine or a send may raise an error (err): the catch of lines 80-86
\* logs it and the dispatch returns.
Dispatch(t) ==
    /\ Runnable(t)
    /\ turns[t].pc = "dispatch"
    /\ \E k \in 0..MaxReplies, err \in BOOLEAN :
        turns' = [turns EXCEPT ![t].engineCalls = @ + 1,
                               ![t].sends = @ + k,
                               ![t].errorLogged = err,
                               ![t].pc = "done"]
    /\ UNCHANGED <<cfg, pool, budget, received, now, seenMessages, buffers,
                   userCache, pairingStore, chatHistories, deliveries, directoryUp, matchCall, threadCall, replyRun, stoppedAt,
                sendRuns, planRun, chunkCall, activeProviders, providerCalls>>

Next ==
    \/ Tick
    \/ \E id \in pool : Receive(id)
    \/ \E key \in DOMAIN buffers : TimerFire(key)
    \/ \E t \in 1..Len(turns) : PairingStep(t)
    \/ \E t \in 1..Len(turns) : Prepare2Step(t)
    \/ \E t \in 1..Len(turns) : Dispatch(t)

Spec == Init /\ [][Next]_vars

SpecHistory == InitOf(HistoryScenarios) /\ [][Next]_vars

\* A pending quiet-period timer expires.
TimerExpiry == \E key \in DOMAIN buffers : TimerFire(key)

\* Direct-message runs with bursts, a control command and a pairing request.
LiveScenarios ==
    { Scenario([DefaultCfg EXCEPT !.dmPolicy = "open"], {"d1", "d2", "d4"},
               MaxEvents, TRUE),
      Scenario(DefaultCfg, {"d1", "d5"}, MaxEvents, TRUE) }

\* The runs in which a pending timer does not stay pending forever.
SpecLive == InitOf(LiveScenarios) /\ [][Next]_vars /\ WF_vars(TimerExpiry)

SpecGate == InitOf(GateScenarios) /\ [][Next]_vars

----------------------------------------------------------------------------
(* provider.ts: stopping the provider of the account *)

\* stopFeishuMonitorProvider: provider.stop() writes a log line and the
\* provider is removed from the registry of active providers; the debouncer of
\* its message handler is not touched.
Stop ==
    /\ stoppedAt = -1
    /\ stoppedAt' = Len(turns)
    /\ UNCHANGED <<cfg, pool, budget, received, now, seenMessages, buffers, turns,
                   userCache, pairingStore, chatHistories, deliveries, directoryUp,
                   matchCall, threadCall, replyRun,
                   sendRuns, planRun, chunkCall, activeProviders, providerCalls>>

StopScenarios ==
    { Scenario([DefaultCfg EXCEPT !.dmPolicy = "open"], {"d1", "d2"}, 2, TRUE),
      Scenario(DefaultCfg, {"d1"}, 1, TRUE) }

\* Events reach the handler of the provider only while it is registered.
NextStop ==
    \/ Stop
    \/ Tick
    \/ stoppedAt = -1 /\ \E id \in pool : Receive(id)
    \/ \E key \in DOMAIN buffers : TimerFire(key)
    \/ \E t \in 1..Len(turns) : PairingStep(t)
    \/ \E t \in 1..Len(turns) : Prepare2Step(t)
    \/ \E t \in 1..Len(turns) : Dispatch(t)

SpecStop == InitOf(StopScenarios) /\ [][NextStop]_vars

----------------------------------------------------------------------------
(* The two allowlist matchers of context.ts, called on the same arguments *)

MaxListLen == 2

MatchTokens == {"*", "u1", "U1", "alice", "Alice", "bob"}
MatchLists == {l \in SUBSET MatchTokens : Cardinality(l) <= MaxListLen}
MatchIds == {"u1", "U1", "u2"}
MatchNames == {Undefined, "Alice", "alice", "bob"}

InitMatch ==
    /\ cfg = DefaultCfg
    /\ pool = {}
    /\ budget = 0
    /\ directoryUp = TRUE
    /\ received = 0
    /\ now = 0
    /\ seenMessages = <<>>
    /\ buffers = [k \in {} |-> <<>>]
    /\ turns = <<>>
    /\ userCache = {}
    /\ pairingStore = {}
    /\ chatHistories = [k \in {} |-> <<>>]
    /\ deliveries = <<>>
    /\ threadCall = NoThreadCall
    /\ replyRun = NoReplyRun
    /\ stoppedAt = -1
    /\ CallsAtRest
    /\ \E l \in MatchLists, id \in MatchIds, name \in MatchNames :
            matchCall = [pc |-> "call", allowList |-> l, id |-> id, name |-> name]

\* Both matchers are applied to the arguments of the call.
ApplyMatchers ==
    /\ matchCall.pc = "call"
    /\ matchCall' =
            [pc |-> "returned", allowList |-> matchCall.allowList,
             id |-> matchCall.id, name |-> matchCall.name,
             allowed |-> isFeishuUserAllowed(matchCall.allowList, matchCall.id,
                                             matchCall.name),
             match |-> resolveFeishuAllowListMatch(matchCall.allowList, matchCall.id,
                                                   matchCall.name)]
    /\ UNCHANGED <<cfg, pool, budget, received, now, seenMessages, buffers, turns,
                   userCache, pairingStore, chatHistories, deliveries, directoryUp,
                   threadCall, replyRun, stoppedAt,
                sendRuns, planRun, chunkCall, activeProviders, providerCalls>>

NextMatch == ApplyMatchers

SpecMatch == InitMatch /\ [][NextMatch]_vars

----------------------------------------------------------------------------
(* threading.ts resolveFeishuThreadContext, called on a message *)

\* The pipeline at rest: no event received, nothing pending.
PipelineAtRest ==
    /\ cfg = DefaultCfg
    /\ pool = {}
    /\ budget = 0
    /\ directoryUp = TRUE
    /\ received = 0
    /\ now = 0
    /\ seenMessages = <<>>
    /\ buffers = [k \in {} |-> <<>>]
    /\ turns = <<>>
    /\ userCache = {}
    /\ pairingStore = {}
    /\ chatHistories = [k \in {} |-> <<>>]
    /\ deliveries = <<>>
    /\ stoppedAt = -1

\* The ids a field of the message may hold: missing, blank, plain, padded.
ThreadMessageIds == {"", " ", "m1", " m1 "}
ThreadRootIds == {"", " ", "r1", " r1 "}
ThreadParentIds == {"", " ", "p1", " p1 "}

InitThread ==
    /\ PipelineAtRest
    /\ matchCall = NoMatchCall
    /\ replyRun = NoReplyRun
    /\ CallsAtRest
    /\ \E m \in ThreadMessageIds, r \in ThreadRootIds, p \in ThreadParentIds :
            threadCall = [pc |-> "call",
                          message |-> [message_id |-> m, root_id |-> r, parent_id |-> p]]

ResolveThread ==
    /\ threadCall.pc = "call"
    /\ threadCall' = [pc |-> "returned", message |-> threadCall.message,
                      result |-> resolveFeishuThreadContext(threadCall.message)]
    /\ UNCHANGED <<cfg, pool, budget, received, now, seenMessages, buffers, turns,
                   userCache, pairingStore, chatHistories, deliveries, directoryUp,
                   matchCall, replyRun, stoppedAt,
                sendRuns, planRun, chunkCall, activeProviders, providerCalls>>

NextThread == ResolveThread

SpecThread == InitThread /\ [][NextThread]_vars

----------------------------------------------------------------------------
(* Reply delivery: deliverFeishuReplies, createFeishuReplyDispatcher.deliver
   and sendMessageFeishu.  A text is the sequence of its characters. *)

\* textChunkLimit (default 4000), scaled down.
TextLimit == 3

\* The most payloads the engine returns for one turn.
MaxPayloads == 2

\* SILENT_REPLY_TOKEN of the plugin SDK, shortened.
SILENT_REPLY_TOKEN == <<"N", "O">>

isSilentReplyText(text, token) == text = token

\* Characters that String.prototype.trim removes.
IsSpace(ch) == ch \in {" ", "\n"}

RECURSIVE TrimStart(_)
TrimStart(text) ==
    IF text # <<>> /\ IsSpace(Head(text)) THEN TrimStart(Tail(text)) ELSE text

RECURSIVE TrimEnd(_)
TrimEnd(text) ==
    IF text # <<>> /\ IsSpace(text[Len(text)])
    THEN TrimEnd(SubSeq(text, 1, Len(text) - 1))
    ELSE text

TrimText(text) == TrimEnd(TrimStart(text))

\* String.prototype.lastIndexOf(sub, from), indices counted from 0.
LastIndexOf(text, sub, from) ==
    LET hits == { i \in 0..from : /\ i + Len(sub) <= Len(text)
                                  /\ SubSeq(text, i + 1, i + Len(sub)) = sub }
    IN IF hits = {} THEN -1 ELSE CHOOSE i \in hits : \A j \in hits : j <= i

\* Variant that always breaks at maxLength.
BreakPointHard(remaining, maxLength) == maxLength

\* Variant that breaks one character past maxLength.
BreakPointPastLimit(remaining, maxLength) == maxLength + 1

\* format.ts lines 190-208: paragraph break, else newline, else space, each
\* only beyond half of maxLength; else maxLength.
BreakPoint(remaining, maxLength) ==
    LET paragraphBreak == LastIndexOf(remaining, <<"\n", "\n">>, maxLength)
        newlineBreak == LastIndexOf(remaining, <<"\n">>, maxLength)
        spaceBreak == LastIndexOf(remaining, <<" ">>, maxLength)
    IN IF 2 * paragraphBreak > maxLength THEN paragraphBreak
       ELSE IF 2 * newlineBreak > maxLength THEN newlineBreak
       ELSE IF 2 * spaceBreak > maxLength THEN spaceBreak
       ELSE maxLength

RECURSIVE ChunkLoop(_, _)
ChunkLoop(remaining, maxLength) ==
    IF Len(remaining) = 0 THEN <<>>
    ELSE IF Len(remaining) <= maxLength THEN <<remaining>>
    ELSE LET breakPoint == BreakPoint(remaining, maxLength)
         IN <<TrimText(SubSeq(remaining, 1, breakPoint))>>
            \o ChunkLoop(TrimText(SubSeq(remaining, breakPoint + 1, Len(remaining))),
                         maxLength)

chunkFeishuText(text, maxLength) ==
    IF Len(text) <= maxLength THEN <<text>> ELSE ChunkLoop(text, maxLength)

\* core.channel.text.chunkTextWithMode, by length.
chunkTextWithMode(text, limit) == chunkFeishuText(text, limit)

\* The line that stands for a media item: the paperclip and the URL, one character.
MediaLine(mediaUrl) == <<mediaUrl>>

\* The platform calls of one sendMessageFeishu(to, message, {replyToId}): one
\* per chunk, the first a reply when replyToId is set; a blank message throws
\* before any call.
sendMessageFeishu(message, replyToId, payload) ==
    LET trimmedMessage == TrimText(message)
        chunks == chunkFeishuText(trimmedMessage, TextLimit)
    IN IF trimmedMessage = <<>>
       THEN << [api |-> "throw", replyTo |-> Undefined, content |-> <<>>,
                payload |-> payload] >>
       ELSE [i \in 1..Len(chunks) |->
                [api |-> IF i = 1 /\ replyToId # Undefined THEN "reply" ELSE "send",
                 replyTo |-> IF i = 1 THEN replyToId ELSE Undefined,
                 content |-> chunks[i],
                 payload |-> payload]]

RECURSIVE Flatten(_)
Flatten(seqs) == IF seqs = <<>> THEN <<>> ELSE Head(seqs) \o Flatten(Tail(seqs))

\* payload.replyToId ?? params.replyToId
Coalesce(a, b) == IF a # Undefined THEN a ELSE b

\* The platform calls of deliverFeishuReplies for the payload at index n.
RepliesPayloadCalls(payload, n, replyToId) ==
    LET mediaList == payload.mediaUrls
        text == payload.text
        to == Coalesce(payload.replyToId, replyToId)
    IN IF text = <<>> /\ mediaList = <<>> THEN <<>>
       ELSE IF mediaList = <<>>
       THEN IF TrimText(text) = <<>> \/ isSilentReplyText(TrimText(text), SILENT_REPLY_TOKEN)
            THEN <<>>
            ELSE sendMessageFeishu(TrimText(text), to, n)
       ELSE Flatten([i \in 1..Len(mediaList) |->
                LET caption == IF i = 1 THEN text ELSE <<>>
                    messageText == IF caption # <<>>
                                   THEN caption \o <<"\n", "\n">> \o MediaLine(mediaList[i])
                                   ELSE MediaLine(mediaList[i])
                IN sendMessageFeishu(messageText, to, n)])

\* The platform calls of the dispatcher's deliver for the payload at index n.
DeliverPayloadCalls(payload, n, replyToId) ==
    LET text == payload.text
        mediaList == payload.mediaUrls
        chunks == IF text # <<>> THEN chunkTextWithMode(text, TextLimit) ELSE <<>>
    IN IF TrimText(text) = <<>> /\ mediaList = <<>> THEN <<>>
       ELSE Flatten([i \in 1..Len(chunks) |->
                        IF TrimText(chunks[i]) = <<>> THEN <<>>
                        ELSE sendMessageFeishu(chunks[i], replyToId, n)])
            \o Flatten([i \in 1..Len(mediaList) |->
                        sendMessageFeishu(MediaLine(mediaList[i]), replyToId, n)])

\* The platform calls of a turn, in order: path "replies" is deliverAutoReply
\* with deliverFeishuReplies, path "dispatcher" is the reply dispatcher, which
\* calls deliver once per payload.
DeliverCalls(path, replies, replyToId) ==
    Flatten([n \in 1..Len(replies) |->
                IF path = "replies" THEN RepliesPayloadCalls(replies[n], n, replyToId)
                ELSE DeliverPayloadCalls(replies[n], n, replyToId)])

ReplyTexts == {<<>>, <<" ">>, SILENT_REPLY_TOKEN, <<"a">>, <<"a", "b", "c", "d">>}
MediaLists == {<<>>, <<"u1">>, <<"u1", "u2">>}
PayloadReplyToIds == {Undefined, "m9"}
TurnReplyToIds == {Undefined, "p1"}
DeliveryPaths == {"replies", "dispatcher"}

\* ReplyPayload; the payload of the dispatcher has no replyToId of its own.
ReplyPayloads(path) ==
    { [text |-> t, mediaUrls |-> m, replyToId |-> r] :
        t \in ReplyTexts, m \in MediaLists,
        r \in IF path = "replies" THEN PayloadReplyToIds ELSE {Undefined} }

ReplyLists(path) ==
    UNION { [1..n -> ReplyPayloads(path)] : n \in 0..MaxPayloads }

ReplyUnchanged ==
    UNCHANGED <<cfg, pool, budget, received, now, seenMessages, buffers, turns,
                userCache, pairingStore, chatHistories, deliveries, directoryUp,
                matchCall, threadCall, stoppedAt,
                sendRuns, planRun, chunkCall, activeProviders, providerCalls>>

InitReply ==
    /\ PipelineAtRest
    /\ matchCall = NoMatchCall
    /\ threadCall = NoThreadCall
    /\ replyRun = NoReplyRun
    /\ CallsAtRest

\* dispatchPreparedFeishuMessage up to the first platform call: the engine has
\* returned its payloads.
StartDeliver ==
    /\ replyRun.pc = "none"
    /\ \E path \in DeliveryPaths, replyToId \in TurnReplyToIds :
       \E replies \in ReplyLists(path) :
            replyRun' = [pc |-> "deliver", path |-> path, replyToId |-> replyToId,
                         replies |-> replies,
                         calls |-> DeliverCalls(path, replies, replyToId),
                         attempts |-> 0, sent |-> <<>>, hasReplied |-> FALSE,
                         failed |-> FALSE, errorsLogged |-> 0]
    /\ ReplyUnchanged

\* The next platform call succeeds.
SendOk ==
    /\ replyRun.pc = "deliver"
    /\ Len(replyRun.sent) < Len(replyRun.calls)
    /\ replyRun.calls[Len(replyRun.sent) + 1].api # "throw"
    /\ replyRun' = [replyRun EXCEPT
                        !.attempts = @ + 1,
                        !.sent = Append(@, replyRun.calls[Len(replyRun.sent) + 1])]
    /\ ReplyUnchanged

\* Variant of a failing call after which delivery goes on with the calls that
\* remain.
SendFailContinue ==
    /\ replyRun.pc = "deliver"
    /\ Len(replyRun.sent) < Len(replyRun.calls)
    /\ replyRun' = [replyRun EXCEPT
                        !.attempts = @ + 1,
                        !.failed = TRUE,
                        !.errorsLogged = @ + 1,
                        !.calls = SubSeq(@, 1, Len(replyRun.sent))
                                  \o SubSeq(@, Len(replyRun.sent) + 2, Len(@))]
    /\ ReplyUnchanged

\* The next platform call throws: the loops are left, the assignment of
\* dispatch.ts line 28 is skipped, and onError or the catch block logs.  That
\* the reply dispatcher delivers no later payload follows spec section 7(e).
SendFail ==
    /\ replyRun.pc = "deliver"
    /\ Len(replyRun.sent) < Len(replyRun.calls)
    /\ replyRun' = [replyRun EXCEPT
                        !.pc = "done",
                        !.attempts = @ + 1,
                        !.failed = TRUE,
                        !.errorsLogged = @ + 1]
    /\ ReplyUnchanged

\* Every call was made: deliverFeishuReplies returns and the callback sets
\* hasRepliedRef (dispatch.ts line 28); the other version keeps no flag.
FinishDeliver ==
    /\ replyRun.pc = "deliver"
    /\ Len(replyRun.sent) = Len(replyRun.calls)
    /\ replyRun' = [replyRun EXCEPT
                        !.pc = "done",
                        !.hasReplied = (replyRun.path = "replies")]
    /\ ReplyUnchanged

NextReply ==
    \/ StartDeliver
    \/ SendOk
    \/ SendFail
    \/ FinishDeliver

SpecReply == InitReply /\ [][NextReply]_vars

----------------------------------------------------------------------------
(* Concurrent deliveries: the turns of different conversations are dispatched
   at the same time; within one turn every platform call is awaited. *)

\* The turns dispatched at the same time.
MaxSendTurns == 2

SendTexts == {<<"a">>, <<"a", "b", "c", "d">>, <<"a", "b", "c", "d", "e", "f", "g">>}

\* A turn whose reply is one payload of text.
SendRun(path, text, replyToId) ==
    [calls |-> DeliverCalls(path, <<[text |-> text, mediaUrls |-> <<>>,
                                     replyToId |-> Undefined]>>, replyToId),
     started |-> 0, completed |-> 0]

SendUnchanged ==
    UNCHANGED <<cfg, pool, budget, received, now, seenMessages, buffers, turns,
                userCache, pairingStore, chatHistories, deliveries, directoryUp,
                matchCall, threadCall, replyRun, stoppedAt,
                planRun, chunkCall, activeProviders, providerCalls>>

InitSend ==
    /\ PipelineAtRest
    /\ matchCall = NoMatchCall
    /\ threadCall = NoThreadCall
    /\ replyRun = NoReplyRun
    /\ planRun = NoPlanRun
    /\ chunkCall = NoChunkCall
    /\ activeProviders = NoProviders
    /\ providerCalls = NoProviderCalls
    /\ \E path \in DeliveryPaths, replyToId \in TurnReplyToIds :
       \E texts \in [1..MaxSendTurns -> SendTexts] :
            sendRuns = [runs |-> [t \in 1..MaxSendTurns |->
                                    SendRun(path, texts[t], replyToId)],
                        log |-> <<>>]

\* Variant that starts the call for the next chunk without waiting for the
\* call before it.
StartSendNoAwait(t) ==
    /\ sendRuns.runs[t].started < Len(sendRuns.runs[t].calls)
    /\ sendRuns' = [runs |-> [sendRuns.runs EXCEPT ![t].started = @ + 1],
                    log |-> Append(sendRuns.log,
                                   [turn |-> t, chunk |-> sendRuns.runs[t].started + 1,
                                    phase |-> "start"])]
    /\ SendUnchanged

\* The loop of the turn reaches its next await: the platform call for the next
\* chunk is started, the call before it having returned.
StartSend(t) ==
    /\ sendRuns.runs[t].started = sendRuns.runs[t].completed
    /\ sendRuns.runs[t].started < Len(sendRuns.runs[t].calls)
    /\ sendRuns' = [runs |-> [sendRuns.runs EXCEPT ![t].started = @ + 1],
                    log |-> Append(sendRuns.log,
                                   [turn |-> t, chunk |-> sendRuns.runs[t].started + 1,
                                    phase |-> "start"])]
    /\ SendUnchanged

\* The platform call in flight returns.
CompleteSend(t) ==
    /\ sendRuns.runs[t].completed < sendRuns.runs[t].started
    /\ sendRuns' = [runs |-> [sendRuns.runs EXCEPT ![t].completed = @ + 1],
                    log |-> Append(sendRuns.log,
                                   [turn |-> t, chunk |-> sendRuns.runs[t].completed + 1,
                                    phase |-> "complete"])]
    /\ SendUnchanged

NextSend ==
    \/ \E t \in DOMAIN sendRuns.runs : StartSend(t)
    \/ \E t \in DOMAIN sendRuns.runs : CompleteSend(t)

SpecSend == InitSend /\ [][NextSend]_vars

----------------------------------------------------------------------------
(* Reply targets: resolveFeishuReplyToId and createFeishuReplyDeliveryPlan. *)

\* The calls made on one delivery plan.
MaxPlanCalls == 4

\* The three modes, and a value outside them for the default branch.
ReplyToModes == {"off", "first", "all", "other"}
IncomingReplyToIds == {Undefined, "p1"}
PlanMessageIds == {Undefined, "m1"}

\* Variant in which mode first ignores hasReplied.
resolveFeishuReplyToIdFirstAlways(replyToMode, incomingReplyToId, messageId, hasReplied) ==
    CASE replyToMode = "off" -> incomingReplyToId
      [] replyToMode = "first" -> Coalesce(incomingReplyToId, messageId)
      [] replyToMode = "all" -> Coalesce(incomingReplyToId, messageId)
      [] OTHER -> incomingReplyToId

resolveFeishuReplyToId(replyToMode, incomingReplyToId, messageId, hasReplied) ==
    CASE replyToMode = "off" -> incomingReplyToId
      [] replyToMode = "first" ->
            IF hasReplied THEN Undefined ELSE Coalesce(incomingReplyToId, messageId)
      [] replyToMode = "all" -> Coalesce(incomingReplyToId, messageId)
      [] OTHER -> incomingReplyToId

PlanUnchanged ==
    UNCHANGED <<cfg, pool, budget, received, now, seenMessages, buffers, turns,
                userCache, pairingStore, chatHistories, deliveries, directoryUp,
                matchCall, threadCall, replyRun, stoppedAt,
                sendRuns, chunkCall, activeProviders, providerCalls>>

\* createFeishuReplyDeliveryPlan with a fresh hasRepliedRef.
InitPlan ==
    /\ PipelineAtRest
    /\ matchCall = NoMatchCall
    /\ threadCall = NoThreadCall
    /\ replyRun = NoReplyRun
    /\ sendRuns = NoSendRuns
    /\ chunkCall = NoChunkCall
    /\ activeProviders = NoProviders
    /\ providerCalls = NoProviderCalls
    /\ \E mode \in ReplyToModes, incoming \in IncomingReplyToIds, id \in PlanMessageIds :
            planRun = [pc |-> "plan", replyToMode |-> mode,
                       incomingReplyToId |-> incoming, messageId |-> id,
                       hasReplied |-> FALSE, trace |-> <<>>]

\* plan.nextReplyToId()
NextReplyToId ==
    /\ planRun.pc = "plan"
    /\ Len(planRun.trace) < MaxPlanCalls
    /\ planRun' = [planRun EXCEPT !.trace = Append(@,
                        [op |-> "nextReplyToId",
                         result |-> resolveFeishuReplyToId(planRun.replyToMode,
                                        planRun.incomingReplyToId, planRun.messageId,
                                        planRun.hasReplied)])]
    /\ PlanUnchanged

\* plan.markSent()
MarkSent ==
    /\ planRun.pc = "plan"
    /\ Len(planRun.trace) < MaxPlanCalls
    /\ planRun' = [planRun EXCEPT !.hasReplied = TRUE,
                                  !.trace = Append(@, [op |-> "markSent",
                                                       result |-> Undefined])]
    /\ PlanUnchanged

NextPlan ==
    \/ NextReplyToId
    \/ MarkSent

SpecPlan == InitPlan /\ [][NextPlan]_vars

----------------------------------------------------------------------------
(* chunkFeishuText, one loop iteration per step. *)

\* The longest text drawn from the alphabet, and the largest limit tried with it.
MaxTextLen == 5
MaxChunkLimit == 4

\* The iterations followed of a loop that does not end.
MaxIterations == 7

ChunkAlphabet == {"a", "b", " ", "\n"}

\* The text of the test of chunking at a paragraph break, and its limit.
ParagraphText ==
    <<"F", "i", "r", "s", "t", " ", "p", "a", "r", "a", "g", "r", "a", "p", "h", ".",
      "\n", "\n",
      "S", "e", "c", "o", "n", "d", " ", "p", "a", "r", "a", "g", "r", "a", "p", "h", ".">>
ParagraphLimit == 25

ChunkTexts == UNION { [1..n -> ChunkAlphabet] : n \in 0..MaxTextLen }

\* textChunkLimit is not validated: 0 is a limit the configuration can supply.
ChunkLimits == 0..MaxChunkLimit

ChunkUnchanged ==
    UNCHANGED <<cfg, pool, budget, received, now, seenMessages, buffers, turns,
                userCache, pairingStore, chatHistories, deliveries, directoryUp,
                matchCall, threadCall, replyRun, stoppedAt,
                sendRuns, planRun, activeProviders, providerCalls>>

InitChunk ==
    /\ PipelineAtRest
    /\ matchCall = NoMatchCall
    /\ threadCall = NoThreadCall
    /\ replyRun = NoReplyRun
    /\ sendRuns = NoSendRuns
    /\ planRun = NoPlanRun
    /\ activeProviders = NoProviders
    /\ providerCalls = NoProviderCalls
    /\ \/ \E text \in ChunkTexts, maxLength \in ChunkLimits :
            chunkCall = [pc |-> "call", text |-> text, maxLength |-> maxLength,
                         remaining |-> <<>>, chunks |-> <<>>, iterations |-> 0]
       \/ chunkCall = [pc |-> "call", text |-> ParagraphText, maxLength |-> ParagraphLimit,
                       remaining |-> <<>>, chunks |-> <<>>, iterations |-> 0]

\* format.ts lines 176-181: a text within the limit is returned as it is; else
\* the loop is entered with the whole text remaining.
ChunkEnter ==
    /\ chunkCall.pc = "call"
    /\ chunkCall' =
        IF Len(chunkCall.text) <= chunkCall.maxLength
        THEN [chunkCall EXCEPT !.pc = "returned", !.chunks = <<chunkCall.text>>]
        ELSE [chunkCall EXCEPT !.pc = "loop", !.remaining = chunkCall.text]
    /\ ChunkUnchanged

\* Variant of an iteration that does not trim what remains.
ChunkIterateNoTrim ==
    /\ chunkCall.pc = "loop"
    /\ chunkCall.iterations < MaxIterations
    /\ LET remaining == chunkCall.remaining
           maxLength == chunkCall.maxLength
           breakPoint == BreakPoint(remaining, maxLength)
       IN chunkCall' =
            IF Len(remaining) = 0
            THEN [chunkCall EXCEPT !.pc = "returned"]
            ELSE IF Len(remaining) <= maxLength
            THEN [chunkCall EXCEPT !.pc = "returned",
                                   !.chunks = Append(@, remaining),
                                   !.iterations = @ + 1]
            ELSE [chunkCall EXCEPT
                    !.chunks = Append(@, SubSeq(remaining, 1, breakPoint + 1)),
                    !.remaining = SubSeq(remaining, breakPoint + 1, Len(remaining)),
                    !.iterations = @ + 1]
    /\ ChunkUnchanged

\* One pass of the while loop, format.ts lines 183-212.
ChunkIterate ==
    /\ chunkCall.pc = "loop"
    /\ chunkCall.iterations < MaxIterations
    /\ LET remaining == chunkCall.remaining
           maxLength == chunkCall.maxLength
           breakPoint == BreakPoint(remaining, maxLength)
       IN chunkCall' =
            IF Len(remaining) = 0
            THEN [chunkCall EXCEPT !.pc = "returned"]
            ELSE IF Len(remaining) <= maxLength
            THEN [chunkCall EXCEPT !.pc = "returned",
                                   !.chunks = Append(@, remaining),
                                   !.iterations = @ + 1]
            ELSE [chunkCall EXCEPT
                    !.chunks = Append(@, TrimText(SubSeq(remaining, 1, breakPoint))),
                    !.remaining = TrimText(SubSeq(remaining, breakPoint + 1, Len(remaining))),
                    !.iterations = @ + 1]
    /\ ChunkUnchanged

NextChunk ==
    \/ ChunkEnter
    \/ ChunkIterate

SpecChunk == InitChunk /\ [][NextChunk]_vars

----------------------------------------------------------------------------
(* Monitor providers: getFeishuMonitorProvider and stopFeishuMonitorProvider.
   A provider is named by the number of the call that created it; a call
   record keeps the account, where the call stands and what it returned;
   stopped is the history of the accounts whose provider was stopped. *)

\* The calls of getFeishuMonitorProvider in one run.
MaxProviderCalls == 3

ProviderAccounts == {"default", "work"}

ProviderUnchanged ==
    UNCHANGED <<cfg, pool, budget, received, now, seenMessages, buffers, turns,
                userCache, pairingStore, chatHistories, deliveries, directoryUp,
                matchCall, threadCall, replyRun, stoppedAt,
                sendRuns, planRun, chunkCall>>

InitProvider ==
    /\ PipelineAtRest
    /\ matchCall = NoMatchCall
    /\ threadCall = NoThreadCall
    /\ replyRun = NoReplyRun
    /\ sendRuns = NoSendRuns
    /\ planRun = NoPlanRun
    /\ chunkCall = NoChunkCall
    /\ activeProviders = NoProviders
    /\ providerCalls = NoProviderCalls

\* Lines 142-148: the call looks the account up and returns the provider found;
\* else it starts createFeishuMonitorProvider and is suspended at the await.
GetProvider(accountId) ==
    /\ Len(providerCalls.calls) < MaxProviderCalls
    /\ providerCalls' = [providerCalls EXCEPT !.calls = Append(@,
            IF accountId \in DOMAIN activeProviders
            THEN [accountId |-> accountId, pc |-> "returned",
                  provider |-> activeProviders[accountId], created |-> FALSE]
            ELSE [accountId |-> accountId, pc |-> "creating",
                  provider |-> 0, created |-> FALSE])]
    /\ UNCHANGED activeProviders
    /\ ProviderUnchanged

\* Lines 148-150: createFeishuMonitorProvider returns; the provider is
\* registered under the account and returned.
ProviderCreated(c) ==
    /\ providerCalls.calls[c].pc = "creating"
    /\ activeProviders' =
            [a \in DOMAIN activeProviders \cup {providerCalls.calls[c].accountId} |->
                IF a = providerCalls.calls[c].accountId THEN c ELSE activeProviders[a]]
    /\ providerCalls' = [providerCalls EXCEPT !.calls[c].pc = "returned",
                                              !.calls[c].provider = c,
                                              !.calls[c].created = TRUE]
    /\ ProviderUnchanged

\* createFeishuMonitorProvider throws (credentials not configured): the call
\* fails and nothing is registered.
ProviderCreateFails(c) ==
    /\ providerCalls.calls[c].pc = "creating"
    /\ providerCalls' = [providerCalls EXCEPT !.calls[c].pc = "failed"]
    /\ UNCHANGED activeProviders
    /\ ProviderUnchanged

\* stopFeishuMonitorProvider, lines 156-163.
StopProvider(accountId) ==
    /\ accountId \in DOMAIN activeProviders
    /\ activeProviders' = [a \in DOMAIN activeProviders \ {accountId} |-> activeProviders[a]]
    /\ providerCalls' = [providerCalls EXCEPT !.stopped = @ \cup {accountId}]
    /\ ProviderUnchanged

NextProvider ==
    \/ \E accountId \in ProviderAccounts : GetProvider(accountId)
    \/ \E c \in DOMAIN providerCalls.calls : ProviderCreated(c)
    \/ \E c \in DOMAIN providerCalls.calls : ProviderCreateFails(c)
    \/ \E accountId \in ProviderAccounts : StopProvider(accountId)

SpecProvider == InitProvider /\ [][NextProvider]_vars

----------------------------------------------------------------------------
(* Properties *)

TurnIds == 1..Len(turns)
DeliveryIds == 1..Len(deliveries)

\* The platform message of a delivery, and of the last entry of a turn.
DeliveryMsg(i) == Ev(deliveries[i].id)
TurnMsg(t) == Ev(turns[t].entries[Len(turns[t].entries)].id)

IsDmMsg(m) == m.chat_type = "p2p"
IsGroupMsg(m) == m.chat_type = "group"

\* The turn never got past the chat and direct-message stages.
StoppedAtChatOrDm(t) ==
    \/ turns[t].pc = "pairing"
    \/ turns[t].outcome \in {"drop:missing-ids", "drop:chat-not-allowed",
                             "drop:dm-disabled", "drop:dm-unauthorized", "drop:pairing"}

NoEngineNoSend(t) == turns[t].engineCalls = 0 /\ turns[t].sends = 0

\* The list names the sender: by wildcard, by id or by display name, compared
\* case-insensitively.
ListNames(list, id, name) ==
    \/ "*" \in list
    \/ \E x \in list : Lower(x) = Lower(id) \/ Lower(x) = Lower(name)

\* The per-group entry that applies to a chat: its own, else the wildcard's.
HasApplicableEntry(chatId) ==
    chatId \in DOMAIN cfg.groupsConfig \/ "*" \in DOMAIN cfg.groupsConfig

ApplicableEntry(chatId) ==
    IF chatId \in DOMAIN cfg.groupsConfig THEN cfg.groupsConfig[chatId]
    ELSE cfg.groupsConfig["*"]

ApplicableUsers(chatId) ==
    IF HasApplicableEntry(chatId) THEN ApplicableEntry(chatId).users ELSE {}

\* The group of the turn requires a mention: its entry's setting, else the
\* account's default.
MentionRequired(t) ==
    IF HasApplicableEntry(TurnMsg(t).chat_id)
       /\ ApplicableEntry(TurnMsg(t).chat_id).requireMention # "unset"
    THEN ApplicableEntry(TurnMsg(t).chat_id).requireMention = "true"
    ELSE cfg.defaultRequireMention

\* The sender of the turn is authorized for control commands: named by the
\* account's allowFrom, or by the user list of the turn's group.
SenderMayCommand(t) ==
    \/ ListNames(cfg.allowFrom, TurnMsg(t).sender, turns[t].senderName)
    \/ /\ IsGroupMsg(TurnMsg(t))
       /\ ListNames(ApplicableUsers(TurnMsg(t).chat_id), TurnMsg(t).sender,
                    turns[t].senderName)

\* The text of the turn is a text message carrying a control command.
CarriesCommand(t) ==
    /\ TurnMsg(t).message_type = "text"
    /\ Len(turns[t].entries) = 1
    /\ \E k \in 1..Len(TurnMsg(t).content.lines) :
          TurnMsg(t).content.lines[k] \in ControlCommands

\* The later stages of the turn have been evaluated.
Evaluated2(t) == turns[t].seq > 0

----------------------------------------------------------------------------
(* C1 *)

DeliveryKey(i) == <<DeliveryMsg(i).chat_id, DeliveryMsg(i).message_id>>
DeliveryHasIds(i) == DeliveryMsg(i).chat_id # "" /\ DeliveryMsg(i).message_id # ""

\* The places (a position of a flushed turn, a position of a pending bucket)
\* that hold delivery i.
HoldersOf(i) ==
    Cardinality({ tp \in TurnIds \X (1..MaxEvents + 1) :
                    /\ tp[2] <= Len(turns[tp[1]].entries)
                    /\ turns[tp[1]].entries[tp[2]].n = i })
    + Cardinality({ kp \in (DOMAIN buffers) \X (1..MaxEvents + 1) :
                    /\ kp[2] <= Len(buffers[kp[1]])
                    /\ buffers[kp[1]][kp[2]].n = i })

\* The other keys delivered strictly between deliveries i and j.
KeysBetween(i, j) ==
    { DeliveryKey(k) : k \in { k \in DeliveryIds :
        i < k /\ k < j /\ DeliveryHasIds(k) /\ DeliveryKey(k) # DeliveryKey(i) } }

\* C1 as stated: of two deliveries with the same (chat_id, message_id) pair
\* that are both passed on to the debouncer, the later one arrives at least a
\* retention window after the earlier one.
C1_AtMostOncePerPair ==
    \A i, j \in DeliveryIds :
        (i < j /\ DeliveryKey(i) = DeliveryKey(j)
         /\ deliveries[i].accepted /\ deliveries[j].accepted)
        => deliveries[j].at - deliveries[i].at >= DedupeTtl

\* C1 amended: of two deliveries with the same pair, both ids present, that are
\* both passed on to the debouncer, the later one arrives at least a retention
\* window after the earlier one unless at least DedupeMaxSize other keys were
\* delivered in between (capacity eviction); and a delivery is queued in
\* exactly one place when it is passed on and in none when it is dropped.
C1_AtMostOnceWhileRetained ==
    /\ \A i, j \in DeliveryIds :
        (i < j /\ DeliveryHasIds(i) /\ DeliveryKey(i) = DeliveryKey(j)
         /\ deliveries[i].accepted /\ deliveries[j].accepted)
        => \/ deliveries[j].at - deliveries[i].at >= DedupeTtl
           \/ Cardinality(KeysBetween(i, j)) >= DedupeMaxSize
    /\ \A i \in DeliveryIds :
        HoldersOf(i) = IF deliveries[i].accepted THEN 1 ELSE 0
    /\ \A t \in TurnIds : turns[t].entries # <<>>

\* A replay inside the retention window was dropped, and the run went on.
C1_Witness ==
    \E i, j \in DeliveryIds :
        /\ i < j /\ DeliveryHasIds(i) /\ DeliveryKey(i) = DeliveryKey(j)
        /\ deliveries[i].accepted /\ ~deliveries[j].accepted
        /\ deliveries[j].at - deliveries[i].at < DedupeTtl
        /\ \E t \in TurnIds : turns[t].pc = "done" /\ turns[t].engineCalls = 1

----------------------------------------------------------------------------
(* C2 *)

\* A text message with a non-empty text and no control command.
PlainText(m) ==
    /\ m.message_type = "text"
    /\ m.content.lines # <<>>
    /\ \A k \in 1..Len(m.content.lines) : m.content.lines[k] \notin ControlCommands

SameBucket(m1, m2) ==
    m1.sender = m2.sender /\ m1.chat_id = m2.chat_id /\ m1.root_id = m2.root_id

\* The turn holding delivery i; 0 while it is pending in a bucket.
TurnHolding(i) ==
    IF \E t \in TurnIds : \E p \in 1..Len(turns[t].entries) : turns[t].entries[p].n = i
    THEN CHOOSE t \in TurnIds : \E p \in 1..Len(turns[t].entries) :
            turns[t].entries[p].n = i
    ELSE 0

RECURSIVE LinesOf(_)
\* The texts of the entries, one after the other.
LinesOf(xs) ==
    IF xs = <<>> THEN <<>> ELSE Ev(Head(xs).id).content.lines \o LinesOf(Tail(xs))

AllPlain(xs) == \A p \in 1..Len(xs) : PlainText(Ev(xs[p].id))

\* C2: plain text events of one sender in one chat and thread that arrive
\* while their bucket is pending end in one turn: two of them are in different
\* turns only if the earlier one's turn was flushed before the later one
\* arrived; and the combined text of a turn of plain text events is their
\* texts joined by newline in arrival order, which is also the raw body of the
\* context built for it.
C2_MergedInArrivalOrder ==
    /\ \A i, j \in DeliveryIds :
        (i < j /\ deliveries[i].accepted /\ deliveries[j].accepted
         /\ PlainText(DeliveryMsg(i)) /\ PlainText(DeliveryMsg(j))
         /\ SameBucket(DeliveryMsg(i), DeliveryMsg(j)))
        => \/ TurnHolding(i) = TurnHolding(j)
           \/ (TurnHolding(i) # 0 /\ turns[TurnHolding(i)].flushedAt < j)
    /\ \A t \in TurnIds :
        AllPlain(turns[t].entries)
        => /\ \A p, q \in 1..Len(turns[t].entries) :
                p < q => /\ turns[t].entries[p].n < turns[t].entries[q].n
                         /\ SameBucket(Ev(turns[t].entries[p].id),
                                       Ev(turns[t].entries[q].id))
           /\ TurnEvent(turns[t]).content = TextContent(LinesOf(turns[t].entries))
           /\ turns[t].outcome = "pass"
                => turns[t].ctx.RawBody = LinesOf(turns[t].entries)

\* Two plain text events were merged into one turn that reached the engine.
C2_Witness ==
    \E t \in TurnIds :
        /\ Len(turns[t].entries) >= 2
        /\ AllPlain(turns[t].entries)
        /\ Ev(turns[t].entries[1].id).content.lines
             # Ev(turns[t].entries[2].id).content.lines
        /\ turns[t].pc = "done"
        /\ turns[t].engineCalls = 1

----------------------------------------------------------------------------
(* C3 *)

\* The direct-message turns of a sender.
DmTurnsOf(s) == { t \in TurnIds : IsDmMsg(TurnMsg(t)) /\ TurnMsg(t).sender = s }

RECURSIVE PairingSendsIn(_)
\* The pairing replies sent by the turns of a set.
PairingSendsIn(ts) ==
    IF ts = {} THEN 0
    ELSE LET t == CHOOSE x \in ts : TRUE
         IN  turns[t].pairingSends + PairingSendsIn(ts \ {t})

Senders == {"u1", "u2"}

UnmatchedSender(s) == ~("*" \in cfg.allowFrom \/ \E x \in cfg.allowFrom : Lower(x) = Lower(s))

PairingOnce(s) ==
    /\ PairingSendsIn(DmTurnsOf(s)) <= 1
    /\ (\E t \in DmTurnsOf(s) : turns[t].pc = "done")
         => PairingSendsIn(DmTurnsOf(s)) = 1
    /\ \A t \in DmTurnsOf(s) :
         /\ NoEngineNoSend(t)
         /\ turns[t].pairingSends = 1 => turns[t].pairingCreated

\* C3 as stated: under DM policy pairing, the direct messages of a sender the
\* allowlist does not match get exactly one pairing reply, sent by the turn
\* that created the request, and none reaches the engine.
C3_PairingReplyOnce ==
    cfg.dmPolicy = "pairing"
    => \A s \in Senders : UnmatchedSender(s) => PairingOnce(s)

\* C3 amended: the same, when direct messages are enabled.
C3_PairingReplyOnceWhenDmEnabled ==
    (cfg.dmEnabled /\ cfg.dmPolicy = "pairing")
    => \A s \in Senders : UnmatchedSender(s) => PairingOnce(s)

\* Two turns of one unmatched sender are done, and one reply was sent.
C3_Witness ==
    /\ cfg.dmEnabled /\ cfg.dmPolicy = "pairing"
    /\ \E s \in Senders :
        /\ UnmatchedSender(s)
        /\ \E t1, t2 \in DmTurnsOf(s) :
            t1 # t2 /\ turns[t1].pc = "done" /\ turns[t2].pc = "done"
        /\ PairingSendsIn(DmTurnsOf(s)) = 1

----------------------------------------------------------------------------
(* C4 *)

Skipped(t) == turns[t].outcome = "skip:no-mention"
Passed(t) == turns[t].outcome = "pass"

SameHistoryKey(a, b) ==
    HistoryKeyOf(TurnEvent(turns[a])) = HistoryKeyOf(TurnEvent(turns[b]))

\* The sender and text of turn a are among the entries.
Carries(entries, a) ==
    \E k \in 1..Len(entries) :
        /\ entries[k].sender = turns[a].senderName
        /\ entries[k].body = LinesOf(turns[a].entries)
        /\ entries[k].messageId = TurnMsg(a).message_id

\* The turns of a's history key skipped after a and before b.
SkippedBetween(a, b) ==
    { c \in TurnIds : Skipped(c) /\ SameHistoryKey(a, c)
                      /\ turns[a].seq < turns[c].seq /\ turns[c].seq < turns[b].seq }

SkippedAfter(a) ==
    { c \in TurnIds : Skipped(c) /\ SameHistoryKey(a, c) /\ turns[a].seq < turns[c].seq }

\* b is the next turn of a's history key that passes the gate after a.
NextPassing(a, b) ==
    /\ Passed(b) /\ SameHistoryKey(a, b) /\ turns[a].seq < turns[b].seq
    /\ ~\E c \in TurnIds : /\ Passed(c) /\ SameHistoryKey(a, c)
                           /\ turns[a].seq < turns[c].seq /\ turns[c].seq < turns[b].seq

\* C4 as stated: a group turn skipped for want of a mention causes no engine
\* call and no reply, and the next turn of its history key that passes the
\* gate carries it in its injected transcript.
C4_SkippedTurnCarried ==
    \A a \in TurnIds :
        Skipped(a)
        => /\ NoEngineNoSend(a)
           /\ \A b \in TurnIds : NextPassing(a, b) => Carries(turns[b].ctx.Body.history, a)

\* C4 amended: a group turn skipped for want of a mention causes no engine call
\* and no reply; with a history limit L > 0 it is in the pending history of its
\* key while fewer than L turns of that key were skipped after it, and every
\* later passing turn of that key carries it in its injected transcript when
\* fewer than L turns of that key were skipped in between.
C4_SkippedTurnCarriedWithinLimit ==
    \A a \in TurnIds :
        Skipped(a)
        => /\ NoEngineNoSend(a)
           /\ turns[a].pc = "done"
           /\ (cfg.historyLimit > 0 /\ Cardinality(SkippedAfter(a)) < cfg.historyLimit)
                => Carries(HistoryOf(chatHistories, HistoryKeyOf(TurnEvent(turns[a]))), a)
           /\ \A b \in TurnIds :
                (/\ Passed(b) /\ SameHistoryKey(a, b) /\ turns[a].seq < turns[b].seq
                 /\ cfg.historyLimit > 0
                 /\ Cardinality(SkippedBetween(a, b)) < cfg.historyLimit)
                => Carries(turns[b].ctx.Body.history, a)

\* A skipped turn is carried by a later turn that reached the engine.
C4_Witness ==
    \E a, b \in TurnIds :
        /\ Skipped(a) /\ NextPassing(a, b)
        /\ Carries(turns[b].ctx.Body.history, a)
        /\ turns[b].pc = "done" /\ turns[b].engineCalls = 1

----------------------------------------------------------------------------
(* C5 *)

PassedGroupStage(t) ==
    turns[t].outcome \notin {"drop:missing-ids", "drop:chat-not-allowed"}

\* C5: under group policy allowlist a group turn passes the group-policy stage
\* only if an entry applies to its group (its own or the wildcard's) and that
\* entry has neither enabled = false nor allow = false.
C5_AllowlistNeedsEntry ==
    \A t \in TurnIds :
        (cfg.groupPolicy = "allowlist" /\ IsGroupMsg(TurnMsg(t)) /\ PassedGroupStage(t))
        => /\ HasApplicableEntry(TurnMsg(t).chat_id)
           /\ ApplicableEntry(TurnMsg(t).chat_id).enabled
           /\ ApplicableEntry(TurnMsg(t).chat_id).allow

----------------------------------------------------------------------------
(* C6 *)

\* C6: the context of a turn says the sender is authorized for control
\* commands exactly when the account's allowFrom is configured and names the
\* sender, or the turn's group has a user list and it names the sender; a
\* group turn that carries a control command is blocked at the command stage
\* exactly when the sender is not authorized.
C6_CommandAuthorizedIff ==
    \A t \in TurnIds :
        /\ Passed(t) => (turns[t].ctx.CommandAuthorized <=> SenderMayCommand(t))
        /\ (Evaluated2(t) /\ IsGroupMsg(TurnMsg(t)) /\ CarriesCommand(t)
            /\ turns[t].outcome # "drop:group-user")
           => (turns[t].outcome = "drop:command-unauthorized" <=> ~SenderMayCommand(t))

\* A turn with a control command was authorized by the sender's display name,
\* and another run authorizes nobody: here, the authorized one.
C6_Witness ==
    \E t \in TurnIds :
        /\ CarriesCommand(t) /\ Passed(t)
        /\ turns[t].ctx.CommandAuthorized
        /\ cfg.allowFrom = {"alice"}
        /\ turns[t].pc = "done"

----------------------------------------------------------------------------
(* C7 *)

InPendingHistory(t) ==
    \E k \in DOMAIN chatHistories : \E p \in 1..Len(chatHistories[k]) :
        chatHistories[k][p].messageId = TurnMsg(t).message_id

\* C7: a group turn that carries a control command its sender is not
\* authorized for is dropped before the mention stage: by the command stage
\* (by the user stage when the group's user list does not name the sender); it
\* reaches no engine, sends nothing and is not in the pending history.
C7_UnauthorizedCommandDropped ==
    \A t \in TurnIds :
        (Evaluated2(t) /\ IsGroupMsg(TurnMsg(t)) /\ CarriesCommand(t)
         /\ ~SenderMayCommand(t))
        => /\ turns[t].outcome \in {"drop:command-unauthorized", "drop:group-user"}
           /\ ApplicableUsers(TurnMsg(t).chat_id) = {}
                => turns[t].outcome = "drop:command-unauthorized"
           /\ turns[t].pc = "done"
           /\ NoEngineNoSend(t)
           /\ ~InPendingHistory(t)

\* An unauthorized command without the required mention was dropped at the
\* command stage.
C7_Witness ==
    \E t \in TurnIds :
        /\ IsGroupMsg(TurnMsg(t)) /\ CarriesCommand(t) /\ ~SenderMayCommand(t)
        /\ MentionRequired(t)
        /\ BotId \notin TurnMsg(t).mentions
        /\ turns[t].outcome = "drop:command-unauthorized"
        /\ chatHistories = [k \in {} |-> <<>>]

----------------------------------------------------------------------------
(* C8 *)

\* C8: a group turn that carries a control command its sender is authorized
\* for is not skipped by the mention stage, mention or not: it passes the gate
\* and its context counts as mentioned.
C8_AuthorizedCommandBypassesMention ==
    \A t \in TurnIds :
        (Evaluated2(t) /\ IsGroupMsg(TurnMsg(t)) /\ CarriesCommand(t)
         /\ SenderMayCommand(t) /\ turns[t].outcome # "drop:group-user")
        => /\ Passed(t)
           /\ MentionRequired(t) => turns[t].ctx.WasMentioned

\* An authorized command without the required mention reached the engine.
C8_Witness ==
    \E t \in TurnIds :
        /\ IsGroupMsg(TurnMsg(t)) /\ CarriesCommand(t) /\ SenderMayCommand(t)
        /\ MentionRequired(t)
        /\ BotId \notin TurnMsg(t).mentions
        /\ Passed(t)
        /\ turns[t].pc = "done" /\ turns[t].engineCalls = 1

----------------------------------------------------------------------------
(* C9 *)

Silent(t) ==
    /\ turns[t].pc = "done"
    /\ NoEngineNoSend(t)
    /\ turns[t].pairingSends = 0
    /\ ~Passed(t)

\* C9: with direct messages disabled (dm.enabled false or DM policy disabled)
\* a direct-message turn reaches no engine and sends nothing, no pairing reply
\* either, and creates no pairing request; with group policy disabled the same
\* holds of a group turn.
C9_DisabledIsSilent ==
    \A t \in TurnIds :
        /\ (IsDmMsg(TurnMsg(t)) /\ (~cfg.dmEnabled \/ cfg.dmPolicy = "disabled"))
            => (Silent(t) /\ pairingStore = {})
        /\ (IsGroupMsg(TurnMsg(t)) /\ cfg.groupPolicy = "disabled") => Silent(t)

\* A direct message of a sender the allowlist names was dropped under DM
\* policy disabled.
C9_Witness ==
    \E t \in TurnIds :
        /\ IsDmMsg(TurnMsg(t))
        /\ cfg.dmEnabled /\ cfg.dmPolicy = "disabled" /\ cfg.allowFrom = {"*"}
        /\ PlainText(TurnMsg(t))
        /\ turns[t].pc = "done"

----------------------------------------------------------------------------
(* C10 *)

PassedDmStage(t) == ~StoppedAtChatOrDm(t)

\* C10 as stated: under DM policy open every direct-message turn passes the
\* direct-message stage, and under group policy open every group turn passes
\* the group-policy stage.
C10_OpenPasses ==
    \A t \in TurnIds :
        /\ (IsDmMsg(TurnMsg(t)) /\ cfg.dmPolicy = "open") => PassedDmStage(t)
        /\ (IsGroupMsg(TurnMsg(t)) /\ cfg.groupPolicy = "open") => PassedGroupStage(t)

\* C10 amended: under DM policy open, with direct messages enabled, every
\* direct-message turn passes the direct-message stage whatever the allowlist
\* contains; under group policy open every group turn passes the group-policy
\* stage whatever its entry says.
C10_OpenPassesWhenDmEnabled ==
    \A t \in TurnIds :
        /\ (IsDmMsg(TurnMsg(t)) /\ cfg.dmEnabled /\ cfg.dmPolicy = "open")
            => (PassedDmStage(t) /\ turns[t].pairingSends = 0 /\ pairingStore = {})
        /\ (IsGroupMsg(TurnMsg(t)) /\ cfg.groupPolicy = "open") => PassedGroupStage(t)

\* A direct message of a sender the allowlist does not name reached the engine
\* under DM policy open.
C10_Witness ==
    \E t \in TurnIds :
        /\ IsDmMsg(TurnMsg(t))
        /\ cfg.dmEnabled /\ cfg.dmPolicy = "open" /\ cfg.allowFrom = {"U1"}
        /\ TurnMsg(t).sender = "u2"
        /\ Passed(t) /\ turns[t].pc = "done" /\ turns[t].engineCalls = 1

----------------------------------------------------------------------------
(* C11 *)

\* The turn was stopped by the per-group user stage.
StoppedAtGroupUser(t) == turns[t].outcome = "drop:group-user"

\* C11: a group turn that reaches the per-group user stage is stopped there
\* exactly when the entry applying to its group has a non-empty user list that
\* names neither the sender's id nor the sender's display name (compared
\* case-insensitively, `*` naming everybody); with no list or an empty one
\* every sender passes.
C11_GroupUserStage ==
    \A t \in TurnIds :
        (Evaluated2(t) /\ IsGroupMsg(TurnMsg(t)))
        => (StoppedAtGroupUser(t)
            <=> /\ ApplicableUsers(TurnMsg(t).chat_id) # {}
                /\ ~ListNames(ApplicableUsers(TurnMsg(t).chat_id),
                              TurnMsg(t).sender, turns[t].senderName))

\* A sender the list names by display name only has passed the stage.
C11_Witness ==
    \E t \in TurnIds :
        /\ Evaluated2(t)
        /\ IsGroupMsg(TurnMsg(t))
        /\ ApplicableUsers(TurnMsg(t).chat_id) = {"bob"}
        /\ TurnMsg(t).sender = "u2"
        /\ turns[t].senderName = "bob"
        /\ ~StoppedAtGroupUser(t)

----------------------------------------------------------------------------
(* C12 *)

\* C12: on every allowlist, id and display name the two matchers give the same
\* verdict: allowed exactly when the list contains `*`, or the id or the
\* display name compared case-insensitively; an empty list allows nobody.
C12_MatchersAgree ==
    matchCall.pc = "returned"
    => /\ matchCall.match.allowed = matchCall.allowed
       /\ matchCall.allowed
            <=> ListNames(matchCall.allowList, matchCall.id, matchCall.name)
       /\ matchCall.allowList = {} => ~matchCall.allowed

\* Both matchers have allowed a caller whose display name is on the list in
\* another case, and whose id is not.
C12_Witness ==
    /\ matchCall.pc = "returned"
    /\ matchCall.allowList = {"Alice", "u1"}
    /\ matchCall.id = "u2"
    /\ matchCall.name = "alice"
    /\ matchCall.allowed
    /\ matchCall.match.allowed

----------------------------------------------------------------------------
(* C13 *)

\* The text of the turn matches one of the configured mention patterns.
MatchesMentionPattern(t) ==
    \E k \in 1..Len(TurnMsg(t).content.lines) :
        TurnMsg(t).content.lines[k] \in cfg.mentionPatterns

\* The turn got as far as the mention stage.
ReachedMentionStage(t) ==
    /\ Evaluated2(t)
    /\ turns[t].outcome \notin {"drop:group-user", "drop:empty-body",
                                 "drop:command-unauthorized"}

\* C13: when the bot's own platform id is not known, a group text message that
\* matches a configured mention pattern counts as mentioning the bot and
\* passes the mention requirement.
C13_PatternCountsAsMention ==
    \A t \in TurnIds :
        (/\ cfg.botOpenId = ""
         /\ IsGroupMsg(TurnMsg(t))
         /\ TurnMsg(t).message_type = "text"
         /\ MatchesMentionPattern(t)
         /\ ReachedMentionStage(t))
        => /\ Passed(t)
           /\ turns[t].ctx.WasMentioned = TRUE

----------------------------------------------------------------------------
(* C14 *)

\* The gate has rejected the turn at one of its stages.
Rejected(t) == turns[t].outcome \notin {"", "pass"}

\* C14: a turn rejected by a stage of the gate causes no engine call and no
\* message to the platform, except for one reply with the pairing instructions,
\* sent to a direct-message sender under DM policy pairing.
C14_RejectedIsSilent ==
    \A t \in TurnIds :
        Rejected(t)
        => /\ NoEngineNoSend(t)
           /\ turns[t].pairingSends <= 1
           /\ turns[t].pairingSends = 1
                => /\ cfg.dmPolicy = "pairing"
                   /\ IsDmMsg(TurnMsg(t))
                   /\ turns[t].outcome = "drop:pairing"

\* A rejected turn whose only effect on the platform is the pairing reply.
C14_Witness ==
    \E t \in TurnIds :
        /\ Rejected(t)
        /\ turns[t].pc = "done"
        /\ turns[t].pairingSends = 1
        /\ NoEngineNoSend(t)

----------------------------------------------------------------------------
(* C15 *)

\* The text extracted from the message carries a control command.
HasCommand(m) ==
    /\ m.message_type \in {"text", "post"}
    /\ \E k \in 1..Len(m.content.lines) : m.content.lines[k] \in ControlCommands

\* C15: once an event whose text carries a control command has been passed to
\* the debouncer, that event and every earlier event of its bucket are in
\* flushed turns, flushed no later than at the arrival of the command: none of
\* them is pending.
C15_CommandFlushesBucket ==
    \A m \in DeliveryIds :
        (deliveries[m].accepted /\ HasCommand(DeliveryMsg(m)))
        => \A i \in 1..m :
            (deliveries[i].accepted /\ SameBucket(DeliveryMsg(i), DeliveryMsg(m)))
            => /\ TurnHolding(i) # 0
               /\ turns[TurnHolding(i)].flushedAt < m

\* A command arrived while an earlier event of its bucket was pending: that
\* event was flushed at the arrival of the command, ahead of the command.
C15_Witness ==
    \E m \in DeliveryIds : \E i \in 1..(m - 1) :
        /\ deliveries[m].accepted /\ HasCommand(DeliveryMsg(m))
        /\ deliveries[i].accepted /\ SameBucket(DeliveryMsg(i), DeliveryMsg(m))
        /\ TurnHolding(i) # 0
        /\ turns[TurnHolding(i)].origin = "command"
        /\ turns[TurnHolding(i)].flushedAt = m - 1
        /\ TurnHolding(m) > TurnHolding(i)
        /\ buildKey(Entry([id |-> deliveries[m].id, n |-> m])) \notin DOMAIN buffers

----------------------------------------------------------------------------
(* C16 *)

\* The delivery at whose arrival the turn was flushed, when it was not flushed
\* by its timer.
FlushedBy(t) == turns[t].flushedAt + 1

\* C16: a turn is flushed either by the expiry of its bucket's quiet period or
\* at the arrival of an event of its bucket that carries a control command; an
\* event without a control command flushes nothing on its arrival.
C16_FlushOnlyByTimerOrCommand ==
    \A t \in TurnIds :
        \/ turns[t].origin = "timer"
        \/ /\ FlushedBy(t) \in DeliveryIds
           /\ HasCommand(DeliveryMsg(FlushedBy(t)))
           /\ SameBucket(DeliveryMsg(FlushedBy(t)), TurnMsg(t))

----------------------------------------------------------------------------
(* C17 *)

\* The entries are events of one sender in one chat and one thread (or none).
OneBucket(xs) ==
    \A p, q \in 1..Len(xs) : SameBucket(Ev(xs[p].id), Ev(xs[q].id))

\* The event of the delivery is one the debouncer holds back.
Debounced(i) ==
    /\ deliveries[i].accepted
    /\ shouldDebounce(Entry([id |-> deliveries[i].id, n |-> i]))

\* C17: every flushed turn and every pending bucket consists of events of one
\* account, one sender, one chat and one thread root (or none); and two
\* debounced events share a bucket exactly when they agree on these: when they
\* disagree they are never held together, and when they agree the later one
\* joins the earlier one unless that one was flushed before it arrived.
C17_BucketPerSenderChatThread ==
    /\ \A t \in TurnIds : OneBucket(turns[t].entries)
    /\ \A k \in DOMAIN buffers : OneBucket(buffers[k])
    /\ \A i, j \in DeliveryIds :
        (i < j /\ Debounced(i) /\ Debounced(j))
        => IF SameBucket(DeliveryMsg(i), DeliveryMsg(j))
           THEN \/ TurnHolding(i) = TurnHolding(j)
                \/ (TurnHolding(i) # 0 /\ turns[TurnHolding(i)].flushedAt < j)
           ELSE \/ TurnHolding(i) # TurnHolding(j)
                \/ /\ TurnHolding(i) = 0
                   /\ \A k \in DOMAIN buffers :
                        \A p, q \in 1..Len(buffers[k]) :
                            ~(buffers[k][p].n = i /\ buffers[k][q].n = j)

\* Two replies in one thread were merged into one turn while a message of the
\* same sender in the same chat outside the thread, arrived between them, is
\* held elsewhere.
C17_Witness ==
    \E i, j, k \in DeliveryIds :
        /\ i < k /\ k < j
        /\ Debounced(i) /\ Debounced(j) /\ Debounced(k)
        /\ DeliveryMsg(i).root_id = "r1" /\ DeliveryMsg(j).root_id = "r1"
        /\ deliveries[i].id # deliveries[j].id
        /\ DeliveryMsg(k).root_id = ""
        /\ DeliveryMsg(k).sender = DeliveryMsg(i).sender
        /\ DeliveryMsg(k).chat_id = DeliveryMsg(i).chat_id
        /\ TurnHolding(i) # 0
        /\ TurnHolding(i) = TurnHolding(j)
        /\ TurnHolding(k) # TurnHolding(i)

----------------------------------------------------------------------------
(* C18 *)

\* The gate has extracted the raw body of the turn.
ReachedBodyStage(t) == Evaluated2(t) /\ ~StoppedAtGroupUser(t)

\* C18: the raw body the gate extracts from a flushed turn is the combined
\* extracted text of the member events, for plain text and for rich posts
\* alike: a turn with a text is not dropped as empty, and the context built
\* for it carries that text as its raw body.
C18_RawBodyIsCombinedText ==
    \A t \in TurnIds :
        ReachedBodyStage(t)
        => /\ extractMessageText(TurnEvent(turns[t])) = LinesOf(turns[t].entries)
           /\ LinesOf(turns[t].entries) # <<>> => turns[t].outcome # "drop:empty-body"
           /\ Passed(t) => turns[t].ctx.RawBody = LinesOf(turns[t].entries)

----------------------------------------------------------------------------
(* C19 *)

\* The receive handler flagged the member event as mentioning the bot.
Flagged(x) == cfg.botOpenId # "" /\ cfg.botOpenId \in Ev(x.id).mentions

SomeFlagged(t) == \E p \in 1..Len(turns[t].entries) : Flagged(turns[t].entries[p])

\* C19: the wasMentioned flag handed to the gate with a turn is true exactly
\* when some member event of the turn was flagged as mentioning the bot; so a
\* group turn without such a member is skipped where a mention is required
\* (unless it carries an authorized command), and the context of a group turn
\* that passes without a command says it was mentioned exactly when a member
\* was flagged.
C19_MentionedIffSomeMember ==
    \A t \in TurnIds :
        /\ TurnOpts(turns[t]).wasMentioned = "true" <=> SomeFlagged(t)
        /\ (IsGroupMsg(TurnMsg(t)) /\ Skipped(t)) => ~SomeFlagged(t)
        /\ (IsGroupMsg(TurnMsg(t)) /\ Passed(t) /\ ~CarriesCommand(t))
            => /\ turns[t].ctx.WasMentioned = SomeFlagged(t)
               /\ MentionRequired(t) => SomeFlagged(t)

\* A burst in which only the earlier message mentions the bot passed the
\* mention requirement and reached the engine as mentioned.
C19_Witness ==
    \E t \in TurnIds :
        /\ Len(turns[t].entries) = 2
        /\ Flagged(turns[t].entries[1])
        /\ ~Flagged(turns[t].entries[2])
        /\ MentionRequired(t)
        /\ Passed(t)
        /\ turns[t].ctx.WasMentioned = TRUE
        /\ turns[t].engineCalls = 1

----------------------------------------------------------------------------
(* C20 *)

\* The bucket key of a queued entry.
KeyOf(x) == buildKey(Entry(x))

\* Every pending bucket is the one bucket of its key, holds its events in
\* arrival order and has its timer armed; every event passed to the debouncer
\* is held in exactly one place, a pending bucket or a flushed turn.
OneBucketPerKey ==
    /\ \A k \in DOMAIN buffers :
        /\ buffers[k] # <<>>
        /\ \A p \in 1..Len(buffers[k]) : KeyOf(buffers[k][p]) = k
        /\ \A p, q \in 1..Len(buffers[k]) : p < q => buffers[k][p].n < buffers[k][q].n
        /\ ENABLED TimerFire(k)
    /\ \A i \in DeliveryIds : deliveries[i].accepted => HoldersOf(i) = 1

\* An event that is in a flushed turn stays in that turn, and a pending event
\* stays pending or goes to a turn flushed in this step.
FlushedOnce ==
    \A i \in DeliveryIds :
        /\ TurnHolding(i) # 0 => TurnHolding(i)' = TurnHolding(i)
        /\ (deliveries[i].accepted /\ TurnHolding(i) = 0 /\ TurnHolding(i)' # 0)
            => TurnHolding(i)' > Len(turns)

----------------------------------------------------------------------------
(* C25 *)

\* The field holds an id: it is neither missing nor blank.
NonBlank(s) == s \notin {"", " "}

\* C25: resolveFeishuThreadContext marks a message as a thread reply exactly
\* when its root_id is not blank; the thread id is then the (trimmed) root_id,
\* and for a top-level message the message's own (trimmed) id.
C25_ThreadReplyIffRoot ==
    threadCall.pc = "returned"
    => /\ threadCall.result.isThreadReply <=> NonBlank(threadCall.message.root_id)
       /\ threadCall.result.messageThreadId =
            IF NonBlank(threadCall.message.root_id)
            THEN Trim(threadCall.message.root_id)
            ELSE IF NonBlank(threadCall.message.message_id)
            THEN Trim(threadCall.message.message_id)
            ELSE Undefined

\* A message whose root_id is blank was resolved as a top-level message with
\* its own id as thread id.
C25_Witness ==
    /\ threadCall.pc = "returned"
    /\ threadCall.message.root_id = " "
    /\ threadCall.message.message_id = "m1"
    /\ ~threadCall.result.isThreadReply
    /\ threadCall.result.messageThreadId = "m1"

----------------------------------------------------------------------------
(* C26 *)

\* C26: for every message the resolved replyToId is the parent_id when the
\* message has one, else the root_id; it is undefined only when the message
\* has neither.
C26_ReplyToParentElseRoot ==
    threadCall.pc = "returned"
    => threadCall.result.replyToId =
            IF NonBlank(threadCall.message.parent_id)
            THEN Trim(threadCall.message.parent_id)
            ELSE IF NonBlank(threadCall.message.root_id)
            THEN Trim(threadCall.message.root_id)
            ELSE Undefined

----------------------------------------------------------------------------
(* C21 *)

\* C21: when timers expire fairly, every event passed to the debouncer is
\* eventually part of a flushed turn (arrivals stop, the number of events of
\* a run being bounded).
C21_EventuallyFlushed ==
    \A n \in 1..MaxEvents :
        (n \in DeliveryIds /\ deliveries[n].accepted) ~> (TurnHolding(n) # 0)

\* All events have arrived, and a bucket of two of them was flushed by its
\* timer.
C21_Witness ==
    /\ received = budget
    /\ DOMAIN buffers = {}
    /\ \E t \in TurnIds :
        /\ turns[t].origin = "timer"
        /\ Len(turns[t].entries) = 2

----------------------------------------------------------------------------
(* C22 *)

\* The two turns belong to one session.
SameSession(a, b) ==
    SessionKeyOf(TurnEvent(turns[a])) = SessionKeyOf(TurnEvent(turns[b]))

\* Turn b, flushed after turn a, has been applied to the history (or has
\* reached the engine) while a is still waiting for that step.
Overtaken(a, b) ==
    \/ turns[a].pc = "resolve" /\ Evaluated2(b)
    \/ turns[a].pc \in {"resolve", "dispatch"} /\ turns[b].engineCalls > 0

\* C22: turns flushed for one session are applied to the pending history and
\* dispatched in the order in which they were flushed: a turn never overtakes
\* a turn of its session that was flushed before it.
C22_SessionOrder ==
    \A a, b \in TurnIds : (a < b /\ SameSession(a, b)) => ~Overtaken(a, b)

----------------------------------------------------------------------------
(* C23 *)

\* C23: once the provider of the account has been stopped no debounce bucket
\* is pending, and no bucket is flushed by a timer afterwards.
C23_StopLeavesNothingPending ==
    stoppedAt # -1 => (DOMAIN buffers = {} /\ Len(turns) = stoppedAt)

----------------------------------------------------------------------------
(* C24 *)

\* The engine has been invoked for no turn that did not pass the gate, at
\* most once for a turn that did, and once when that turn has returned; a
\* logged error belongs to a turn that has returned.
EngineOncePerPassedTurn ==
    \A t \in TurnIds :
        /\ turns[t].engineCalls <= 1
        /\ turns[t].engineCalls = 1 => Passed(t)
        /\ (Passed(t) /\ turns[t].pc = "done") => turns[t].engineCalls = 1
        /\ turns[t].errorLogged => (turns[t].pc = "done" /\ turns[t].engineCalls = 1)

\* A turn that has returned, with or without an error, is not taken up again.
NeverRetried ==
    \A t \in TurnIds : turns[t].pc = "done" => turns'[t] = turns[t]

----------------------------------------------------------------------------
(* C27 *)

\* The message is a reply in a thread.
InThread(m) == NonBlank(m.root_id)

\* The history key specified for the turn: its session key in a thread, the
\* bare chat id outside.
SpecifiedHistoryKey(t) ==
    IF InThread(TurnMsg(t)) THEN SessionKeyOf(TurnEvent(turns[t]))
    ELSE <<TurnMsg(t).chat_id>>

\* The messages of the run with the given message id in the given chat.
MessagesWithId(chatId, messageId) ==
    { Ev(id) : id \in { id \in pool : /\ Ev(id).chat_id = chatId
                                      /\ Ev(id).message_id = messageId } }

\* C27: a turn skipped for want of a mention is recorded under its session key
\* when it is a thread reply and under the bare chat id otherwise; two replies
\* with one root in one chat have one history key; and the transcript injected
\* into a turn holds only entries of its own thread when it is a thread reply,
\* and only top-level entries of its chat when it is not.
C27_HistoryKeyPerThread ==
    /\ \A k \in DOMAIN chatHistories : \A p \in 1..Len(chatHistories[k]) :
        \E t \in TurnIds :
            /\ Skipped(t)
            /\ chatHistories[k][p].messageId = TurnMsg(t).message_id
            /\ k = SpecifiedHistoryKey(t)
    /\ \A a, b \in TurnIds :
        (/\ InThread(TurnMsg(a)) /\ TurnMsg(a).root_id = TurnMsg(b).root_id
         /\ TurnMsg(a).chat_id = TurnMsg(b).chat_id)
        => SameHistoryKey(a, b)
    /\ \A b \in TurnIds : \A p \in 1..Len(turns[b].ctx.Body.history) :
        \A m \in MessagesWithId(TurnMsg(b).chat_id,
                                 turns[b].ctx.Body.history[p].messageId) :
            Trim(m.root_id) = Trim(TurnMsg(b).root_id)

\* A reply in a thread was skipped and recorded; a later top-level turn of the
\* chat reached the engine without it, and a later reply in the thread with it.
C27_Witness ==
    \E a, b, c \in TurnIds :
        /\ Skipped(a) /\ InThread(TurnMsg(a))
        /\ Passed(b) /\ ~InThread(TurnMsg(b)) /\ turns[a].seq < turns[b].seq
        /\ TurnMsg(b).chat_id = TurnMsg(a).chat_id
        /\ turns[b].ctx.Body.history = <<>>
        /\ turns[b].engineCalls = 1
        /\ Passed(c) /\ TurnMsg(c).root_id = TurnMsg(a).root_id
        /\ turns[b].seq < turns[c].seq
        /\ Carries(turns[c].ctx.Body.history, a)

----------------------------------------------------------------------------
(* C28 *)

\* No payload of the turn names a message of its own to reply to.
NoPayloadReplyToId ==
    \A n \in 1..Len(replyRun.replies) : replyRun.replies[n].replyToId = Undefined

\* C28: of the platform calls of one turn only the first, the first chunk of
\* the first delivered payload, is a reply to the turn's replyToId (when the
\* turn has one); every later chunk and every later payload is an ordinary
\* send.
C28_OnlyFirstChunkReplies ==
    (replyRun.pc # "none" /\ NoPayloadReplyToId) =>
        \A i \in 1..Len(replyRun.sent) :
            IF i = 1 /\ replyRun.replyToId # Undefined
            THEN /\ replyRun.sent[i].api = "reply"
                 /\ replyRun.sent[i].replyTo = replyRun.replyToId
            ELSE replyRun.sent[i].api = "send"

----------------------------------------------------------------------------
(* C29 *)

\* The payload carries no text and no media.
EmptyPayload(payload) == TrimText(payload.text) = <<>> /\ payload.mediaUrls = <<>>

\* C29: a payload without text and media causes no platform call, and a turn
\* all of whose payloads are such ends with the has-replied flag unset.
C29_EmptyPayloadLeavesFlagUnset ==
    replyRun.pc # "none" =>
        /\ \A i \in 1..Len(replyRun.calls) :
                ~EmptyPayload(replyRun.replies[replyRun.calls[i].payload])
        /\ (/\ replyRun.replies # <<>>
            /\ \A n \in 1..Len(replyRun.replies) : EmptyPayload(replyRun.replies[n]))
            => ~replyRun.hasReplied

----------------------------------------------------------------------------
(* C30 *)

\* After a failed call the turn is over: one call failed, it was logged once,
\* the flag is unset, and every call made before it is in the log of sends.
FailedTurnAbandoned ==
    (replyRun.pc # "none" /\ replyRun.failed) =>
        /\ replyRun.pc = "done"
        /\ replyRun.attempts = Len(replyRun.sent) + 1
        /\ replyRun.errorsLogged = 1
        /\ ~replyRun.hasReplied

\* No step of a failed turn makes a platform call.
NoCallAfterFailure ==
    (replyRun.pc # "none" /\ replyRun.failed) =>
        /\ replyRun'.attempts = replyRun.attempts
        /\ replyRun'.sent = replyRun.sent

----------------------------------------------------------------------------
(* C31 *)

\* The events of the platform log that belong to the turn, in order.
LogOfTurn(t) == SelectSeq(sendRuns.log, LAMBDA e : e.turn = t)

\* C31: the chunks of one turn are sent strictly in chunk order, the call for
\* a chunk starting only after the call for the chunk before it has returned,
\* however the calls of other turns are interleaved with them.
C31_ChunksSentInOrder ==
    \A t \in DOMAIN sendRuns.runs :
        \A j \in 1..Len(LogOfTurn(t)) :
            LogOfTurn(t)[j] = [turn |-> t, chunk |-> (j + 1) \div 2,
                               phase |-> IF j % 2 = 1 THEN "start" ELSE "complete"]

\* Two turns of several chunks each were delivered to the end with their
\* calls interleaved: a call of the second turn was in flight while the first
\* turn went from one chunk to the next.
C31_Witness ==
    /\ MaxSendTurns >= 2
    /\ \A t \in DOMAIN sendRuns.runs :
            /\ Len(sendRuns.runs[t].calls) >= 2
            /\ sendRuns.runs[t].completed = Len(sendRuns.runs[t].calls)
    /\ \E i \in 1..(Len(sendRuns.log) - 2) :
            /\ sendRuns.log[i] = [turn |-> 2, chunk |-> 1, phase |-> "start"]
            /\ sendRuns.log[i + 1] = [turn |-> 1, chunk |-> 1, phase |-> "complete"]
            /\ sendRuns.log[i + 2] = [turn |-> 1, chunk |-> 2, phase |-> "start"]

----------------------------------------------------------------------------
(* C32 *)

\* The thread of the plan: the incoming replyToId, else the message id.
ThreadTarget == Coalesce(planRun.incomingReplyToId, planRun.messageId)

\* markSent was called before the call at position i.
MarkedBefore(i) == \E j \in 1..(i - 1) : planRun.trace[j].op = "markSent"

\* C32: over any sequence of nextReplyToId and markSent calls on a delivery
\* plan, mode all always returns the thread (the incoming replyToId, else the
\* message id); mode first returns it only before the first markSent and
\* nothing after it; mode off returns the incoming replyToId and never the
\* message id.
C32_ReplyTargetByMode ==
    \A i \in 1..Len(planRun.trace) :
        planRun.trace[i].op = "nextReplyToId" =>
            /\ planRun.replyToMode = "all" => planRun.trace[i].result = ThreadTarget
            /\ planRun.replyToMode = "first" =>
                    planRun.trace[i].result =
                        IF MarkedBefore(i) THEN Undefined ELSE ThreadTarget
            /\ planRun.replyToMode = "off" =>
                    planRun.trace[i].result = planRun.incomingReplyToId

\* In mode first a reply got the thread, markSent was called, and the next
\* reply got no target; the thread was the message id.
C32_Witness ==
    /\ planRun.replyToMode = "first"
    /\ planRun.incomingReplyToId = Undefined
    /\ planRun.messageId = "m1"
    /\ Len(planRun.trace) >= 3
    /\ planRun.trace[1] = [op |-> "nextReplyToId", result |-> "m1"]
    /\ planRun.trace[2].op = "markSent"
    /\ planRun.trace[3] = [op |-> "nextReplyToId", result |-> Undefined]

----------------------------------------------------------------------------
(* C33 *)

\* The greatest member of a set of indices, -1 when there is none.
Last(S) == IF S = {} THEN -1 ELSE CHOOSE i \in S : \A j \in S : j <= i

\* The indices up to m at which the characters of sub follow in r.
Occurrences(r, sub, m) ==
    { i \in 0..m : /\ i + Len(sub) <= Len(r)
                   /\ \A k \in 1..Len(sub) : r[i + k] = sub[k] }

\* The break point as specified.
SpecifiedBreak(r, m) ==
    LET paragraph == Last(Occurrences(r, <<"\n", "\n">>, m))
        newline == Last(Occurrences(r, <<"\n">>, m))
        space == Last(Occurrences(r, <<" ">>, m))
    IN CASE 2 * paragraph > m -> paragraph
         [] 2 * paragraph <= m /\ 2 * newline > m -> newline
         [] 2 * paragraph <= m /\ 2 * newline <= m /\ 2 * space > m -> space
         [] OTHER -> m

\* A text within the limit comes back whole, and the text of the test comes
\* back as its two paragraphs.
ChunkResultAsSpecified ==
    chunkCall.pc = "returned" =>
        /\ Len(chunkCall.text) <= chunkCall.maxLength => chunkCall.chunks = <<chunkCall.text>>
        /\ (chunkCall.text = ParagraphText /\ chunkCall.maxLength = ParagraphLimit) =>
                chunkCall.chunks = <<SubSeq(ParagraphText, 1, 16), SubSeq(ParagraphText, 19, 35)>>

\* An iteration on a text beyond the limit emits the trimmed prefix up to the
\* specified break point and goes on with the trimmed suffix.
ChunkStepAsSpecified ==
    (/\ chunkCall.pc = "loop"
     /\ chunkCall' # chunkCall
     /\ Len(chunkCall.remaining) > chunkCall.maxLength) =>
        LET r == chunkCall.remaining
            bp == SpecifiedBreak(r, chunkCall.maxLength)
        IN /\ chunkCall'.chunks = Append(chunkCall.chunks, TrimText(SubSeq(r, 1, bp)))
           /\ chunkCall'.remaining = TrimText(SubSeq(r, bp + 1, Len(r)))

\* C33: chunkFeishuText(t, m) returns [t] when len(t) <= m; otherwise each
\* break point is the last paragraph break at or before m if beyond m/2, else
\* the last newline beyond m/2, else the last space beyond m/2, else m, the
\* trimmed prefix being emitted and the trimmed suffix continuing; the text
\* "First paragraph.\n\nSecond paragraph." with limit 25 gives two chunks, the
\* first ending at the paragraph break.
C33_BreakPoints == [](ChunkResultAsSpecified) /\ [][ChunkStepAsSpecified]_vars

\* The text of the test came back as two chunks.
C33_Witness ==
    /\ chunkCall.pc = "returned"
    /\ chunkCall.text = ParagraphText
    /\ chunkCall.maxLength = ParagraphLimit
    /\ Len(chunkCall.chunks) = 2
    /\ Len(chunkCall.chunks[1]) = 16

----------------------------------------------------------------------------
(* C34 *)

AllSpace(text) == \A i \in 1..Len(text) : IsSpace(text[i])

\* The text is the chunks in order with only whitespace before, between and
\* after them.
RECURSIVE Rebuilds(_, _)
Rebuilds(text, chunks) ==
    IF chunks = <<>> THEN AllSpace(text)
    ELSE \E k \in 0..Len(text) :
            /\ AllSpace(SubSeq(text, 1, k))
            /\ k + Len(Head(chunks)) <= Len(text)
            /\ SubSeq(text, k + 1, k + Len(Head(chunks))) = Head(chunks)
            /\ Rebuilds(SubSeq(text, k + Len(Head(chunks)) + 1, Len(text)), Tail(chunks))

\* C34: for every text and every limit m >= 1 the chunks in order rebuild the
\* text by inserting whitespace only; no other character is dropped,
\* duplicated or reordered.
C34_ChunksRebuildText ==
    (chunkCall.pc = "returned" /\ chunkCall.maxLength >= 1) =>
        Rebuilds(chunkCall.text, chunkCall.chunks)

RECURSIVE TotalLen(_)
TotalLen(chunks) == IF chunks = <<>> THEN 0 ELSE Len(Head(chunks)) + TotalLen(Tail(chunks))

\* A text was cut into several chunks and whitespace between them was dropped.
C34_Witness ==
    /\ chunkCall.pc = "returned"
    /\ chunkCall.maxLength >= 1
    /\ Len(chunkCall.chunks) >= 2
    /\ TotalLen(chunkCall.chunks) < Len(chunkCall.text)
    /\ \E i, j \in 1..Len(chunkCall.text) :
            chunkCall.text[i] = "a" /\ chunkCall.text[j] = "b"

----------------------------------------------------------------------------
(* C35 *)

\* C35: every chunk returned for a limit m >= 1 has length at most m.
C35_ChunkWithinLimit ==
    (chunkCall.pc = "returned" /\ chunkCall.maxLength >= 1) =>
        \A i \in 1..Len(chunkCall.chunks) : Len(chunkCall.chunks[i]) <= chunkCall.maxLength

\* A text beyond the limit came back in chunks, one of them of the full length.
C35_Witness ==
    /\ chunkCall.pc = "returned"
    /\ chunkCall.maxLength >= 1
    /\ Len(chunkCall.text) > chunkCall.maxLength
    /\ Len(chunkCall.chunks) >= 2
    /\ \E i \in 1..Len(chunkCall.chunks) : Len(chunkCall.chunks[i]) = chunkCall.maxLength

----------------------------------------------------------------------------
(* C36 *)

\* C36: chunkFeishuText terminates for every text and every limit m >= 0 the
\* configuration can supply: each iteration of the loop that does not return
\* leaves strictly less text remaining.
C36_IterationShortens ==
    [][(chunkCall.pc = "loop" /\ chunkCall'.pc = "loop")
        => Len(chunkCall'.remaining) < Len(chunkCall.remaining)]_vars

----------------------------------------------------------------------------
(* C37 *)

\* C37: for a text with a character that is not whitespace no returned chunk
\* is empty or whitespace only.
C37_NoBlankChunk ==
    (chunkCall.pc = "returned" /\ ~AllSpace(chunkCall.text)) =>
        \A i \in 1..Len(chunkCall.chunks) : ~AllSpace(chunkCall.chunks[i])

----------------------------------------------------------------------------
(* C38 *)

\* The pending history holds at most historyLimit entries per key.
HistoryWithinLimit ==
    \A k \in DOMAIN chatHistories : Len(chatHistories[k]) <= cfg.historyLimit

\* A step changes the entries of a key only by appending one entry and
\* dropping the oldest entries beyond historyLimit.
HistoryOnlyEvicts ==
    \A k \in DOMAIN chatHistories \cup DOMAIN chatHistories' :
        LET old == HistoryOf(chatHistories, k)
            new == HistoryOf(chatHistories', k)
        IN \/ new = old
           \/ /\ new # <<>>
              /\ LET all == Append(old, new[Len(new)])
                 IN new = SubSeq(all, IF Len(all) > cfg.historyLimit
                                      THEN Len(all) - cfg.historyLimit + 1 ELSE 1, Len(all))

\* The step in which a turn passes the gate injects the entries of its key and
\* leaves the pending history as it was.
InjectionKeepsHistory ==
    \A t \in TurnIds :
        (t \in DOMAIN turns' /\ ~Passed(t) /\ turns'[t].outcome = "pass") =>
            /\ chatHistories' = chatHistories
            /\ (IsGroupMsg(TurnMsg(t)) /\ cfg.historyLimit > 0) =>
                    turns'[t].ctx.Body.history =
                        HistoryOf(chatHistories, HistoryKeyOf(TurnEvent(turns[t])))

\* C38: entries of the pending history are removed only by capacity eviction,
\* oldest first, with never more than historyLimit entries per key; a turn that
\* passes the gate and gets the history injected leaves it unchanged, so the
\* same entries are injected into every later passing turn of the key until
\* they are evicted.
C38_HistoryKeptAfterInjection ==
    [](HistoryWithinLimit) /\ [][HistoryOnlyEvicts /\ InjectionKeepsHistory]_vars

\* The entry of one skipped turn was injected into two later turns of its key.
C38_Witness ==
    \E a, b, c \in TurnIds :
        /\ Skipped(a) /\ Passed(b) /\ Passed(c) /\ b # c
        /\ SameHistoryKey(a, b) /\ SameHistoryKey(a, c)
        /\ turns[a].seq < turns[b].seq /\ turns[b].seq < turns[c].seq
        /\ Carries(turns[b].ctx.Body.history, a)
        /\ Carries(turns[c].ctx.Body.history, a)
        /\ turns[b].engineCalls = 1

----------------------------------------------------------------------------
(* C39 *)

\* The providers created for the account.
CreatedFor(accountId) ==
    { c \in DOMAIN providerCalls.calls :
        providerCalls.calls[c].accountId = accountId /\ providerCalls.calls[c].created }

\* The providers returned by calls for the account.
ReturnedFor(accountId) ==
    { providerCalls.calls[c].provider :
        c \in { c \in DOMAIN providerCalls.calls :
                    /\ providerCalls.calls[c].accountId = accountId
                    /\ providerCalls.calls[c].pc = "returned" } }

\* C39: for an account whose provider has not been stopped at most one
\* provider is ever created, however the calls of getFeishuMonitorProvider
\* are interleaved, and every call returns that provider.
C39_OneProviderPerAccount ==
    \A accountId \in ProviderAccounts :
        accountId \notin providerCalls.stopped =>
            /\ Cardinality(CreatedFor(accountId)) <= 1
            /\ Cardinality(ReturnedFor(accountId)) <= 1

----------------------------------------------------------------------------
(* C40 *)

\* The other direct-message turns of the sender of turn t.
OtherDmTurnsOfSender(t) == DmTurnsOf(TurnMsg(t).sender) \ {t}

\* A turn whose pairing reply could not be sent is over: the failure was
\* logged, the turn was dropped without reaching the engine, its reply was
\* attempted once, and no other turn of the sender attempted one.
FailedPairingReplyDropped ==
    \A t \in TurnIds :
        turns[t].sendFailed =>
            /\ turns[t].pairingFailureLogged
            /\ turns[t].pc = "done"
            /\ turns[t].outcome = "drop:pairing"
            /\ NoEngineNoSend(t)
            /\ turns[t].pairingSends = 1
            /\ TurnMsg(t).sender \in pairingStore
            /\ \A o \in OtherDmTurnsOfSender(t) : turns[o].pairingSends = 0

\* No step changes a turn whose pairing reply could not be sent.
FailedPairingReplyNotRetried ==
    \A t \in TurnIds : turns[t].sendFailed => turns'[t] = turns[t]

\* C40: when the pairing reply cannot be sent, the failure is swallowed and
\* logged, the turn is dropped all the same, and the send is never made again:
\* no later message of the sender gets a pairing reply while the request
\* exists.
C40_FailedPairingReplyNotRetried ==
    [](FailedPairingReplyDropped) /\ [][FailedPairingReplyNotRetried]_vars

\* The pairing reply of a turn failed, and a later message of the sender was
\* dropped without a reply.
C40_Witness ==
    \E t \in TurnIds :
        /\ turns[t].sendFailed
        /\ \E o \in OtherDmTurnsOfSender(t) :
            /\ o > t
            /\ turns[o].pc = "done"
            /\ turns[o].outcome = "drop:pairing"
            /\ ~turns[o].pairingCreated
            /\ turns[o].pairingSends = 0

====
